---- MODULE Spec2Model ----
(***************************************************************************)
(* Model of the ODYSCAPE recommendation engine (recommendation-engine.ts,  *)
(* present as src/unnamed/part_006) and of the recommendation part of the  *)
(* storage adapter (src/storage.ts).                                       *)
(*                                                                         *)
(* Scores are JavaScript doubles in the source.  The model keeps them as   *)
(* integers counted in tenths (1.2 is 12, 0.8 is 8); additions and         *)
(* comparisons of tenths are exact, so rounding of doubles is outside the  *)
(* model.                                                                  *)
(***************************************************************************)
EXTENDS Integers, Sequences, FiniteSets, TLC

\* ------------------------------------------------------------------------
\* Bounds of the exploration
\* ------------------------------------------------------------------------
MaxMergeMovie == 2     \* the merger alone gets movie ids 1..MaxMergeMovie
MaxLen == 3            \* longest candidate list handed to the merger alone
MaxRuns == 1           \* generation runs started over one behaviour of SpecSeq
MaxFails == 2          \* provider calls that fail over one behaviour
MaxPrefChanges == 1    \* preference updates over one behaviour
MaxOps == 3            \* interaction and challenge calls over one behaviour

\* ------------------------------------------------------------------------
\* Program constants (tenths)
\* ------------------------------------------------------------------------
GenreWeight == 12          \* genreMatchScore * 1.2
LanguageWeight == 11       \* languageMatch: 1.1
CountryWeight == 13        \* collaborativeScore: 1.3
LevelWeight == 10          \* collaborativeScore: 1.0
CollaborativeWeight == 15  \* collaborativeScore: 1.5
TrendingWeight == 8        \* collaborativeScore: 0.8
TrendingThreshold == 20    \* recommendations.length < 20
HighRating == 7            \* rating.rating >= 7
SampleCap == 3             \* slice(0, 3)
OnboardingEnough == 15     \* allResults.length < 15
OnboardingCap == 20        \* slice(0, 20)

MergeMovieIds == 1..MaxMergeMovie

\* ------------------------------------------------------------------------
\* Helpers on sequences
\* ------------------------------------------------------------------------
Range(s) == {s[i] : i \in 1..Len(s)}

SeqsUpTo(S, n) == UNION {[1..k -> S] : k \in 0..n}

\* Array.prototype.includes
Includes(s, x) == \E i \in 1..Len(s) : s[i] = x

\* Array.prototype.filter(...).length for the genre intersection
RECURSIVE CountIncluded(_, _)
CountIncluded(ids, wanted) ==
  IF ids = <<>> THEN 0
  ELSE (IF Includes(wanted, Head(ids)) THEN 1 ELSE 0)
       + CountIncluded(Tail(ids), wanted)

\* new Set([...]) followed by Array.from: first occurrences, insertion order
DistinctKeepsAll(s) == s
RECURSIVE Distinct(_)
Distinct(s) ==
  IF s = <<>> THEN <<>>
  ELSE LET init == Distinct(SubSeq(s, 1, Len(s) - 1))
           last == s[Len(s)]
       IN IF Includes(init, last) THEN init ELSE Append(init, last)

\* Array.prototype.slice(0, n)
Slice(s, n) == SubSeq(s, 1, IF Len(s) < n THEN Len(s) ELSE n)

\* index of the first element of s whose movieId is m (0 when there is none)
FirstIndex(s, m) ==
  IF \E i \in 1..Len(s) : s[i].movieId = m
  THEN CHOOSE i \in 1..Len(s) :
         /\ s[i].movieId = m
         /\ \A j \in 1..(i - 1) : s[j].movieId # m
  ELSE 0

\* ------------------------------------------------------------------------
\* The merger: mergeAndScoreRecommendations
\* ------------------------------------------------------------------------
MathMaxSum(a, b) == a + b
MathMax(a, b) == IF a >= b THEN a ELSE b

\* movieMap is the Map<number, RecommendationScore>, kept as the sequence of
\* its values in insertion order (the order Map.values() iterates)
MapHasNever(movieMap, id) == FALSE
MapHas(movieMap, id) == \E i \in 1..Len(movieMap) : movieMap[i].movieId = id

\* one iteration of the loop "for (const rec of recommendations)"
MergeStep(movieMap, rec) ==
  IF MapHas(movieMap, rec.movieId)
  THEN LET k == FirstIndex(movieMap, rec.movieId)
           existingRec == movieMap[k]
       IN [movieMap EXCEPT ![k] =
             [existingRec EXCEPT
                !.genreMatch = MathMax(existingRec.genreMatch, rec.genreMatch),
                !.languageMatch = MathMax(existingRec.languageMatch, rec.languageMatch),
                !.collaborativeScore =
                   MathMax(existingRec.collaborativeScore, rec.collaborativeScore)]]
  ELSE Append(movieMap, rec)

\* the loop, entry after entry in list order: the iterations on the first half
\* of the list, then those on the second half from the map the first half
\* left (half is bound to that map, so it is worked out once)
RECURSIVE MergeLoop(_, _)
MergeLoop(movieMap, recommendations) ==
  LET n == Len(recommendations)
  IN IF n = 0 THEN movieMap
     ELSE IF n = 1 THEN MergeStep(movieMap, recommendations[1])
     ELSE CHOOSE result \in
            {MergeLoop(half, SubSeq(recommendations, (n \div 2) + 1, n)) :
               half \in {MergeLoop(movieMap, SubSeq(recommendations, 1, n \div 2))}} :
            TRUE

\* rec.score = rec.genreMatch + rec.languageMatch + rec.collaborativeScore
FinalScoreCarried(rec) == rec.score
FinalScore(rec) == rec.genreMatch + rec.languageMatch + rec.collaborativeScore

mergeAndScoreRecommendations(recommendations) ==
  LET mergedRecommendations == MergeLoop(<<>>, recommendations)
  IN [i \in 1..Len(mergedRecommendations) |->
        [mergedRecommendations[i] EXCEPT
           !.score = FinalScore(mergedRecommendations[i])]]

\* ------------------------------------------------------------------------
\* mergedRecommendations.sort((a, b) => b.score - a.score): a stable sort,
\* written as the insertion sort that gives the same result
\* ------------------------------------------------------------------------
\* number of elements of the sorted prefix that stay in front of rec
InsertPosUnsorted(sorted, rec) == Len(sorted)
InsertPosUnstable(sorted, rec) ==
  Cardinality({i \in 1..Len(sorted) : sorted[i].score > rec.score})
InsertPos(sorted, rec) ==
  Cardinality({i \in 1..Len(sorted) : sorted[i].score >= rec.score})

InsertSorted(sorted, rec) ==
  LET p == InsertPos(sorted, rec)
  IN SubSeq(sorted, 1, p) \o <<rec>> \o SubSeq(sorted, p + 1, Len(sorted))

\* insertion of the entries of rest, in their order, in the same two halves
RECURSIVE SortLoop(_, _)
SortLoop(sorted, rest) ==
  LET n == Len(rest)
  IN IF n = 0 THEN sorted
     ELSE IF n = 1 THEN InsertSorted(sorted, rest[1])
     ELSE CHOOSE result \in
            {SortLoop(half, SubSeq(rest, (n \div 2) + 1, n)) :
               half \in {SortLoop(sorted, SubSeq(rest, 1, n \div 2))}} :
            TRUE

SortByScoreDesc(recs) == SortLoop(<<>>, recs)

\* sortedRecommendations.map(rec => rec.movieId)
MapMovieIds(recs) == [i \in 1..Len(recs) |-> recs[i].movieId]

\* ------------------------------------------------------------------------
\* Data of the model
\* ------------------------------------------------------------------------
UserIds == {1, 2}          \* user 1 is stored, user 2 is not
NumProcs == 2              \* requests of Spec, in flight together, one run each

\* genre_ids the provider reports for a movie
GenreIdsOf(m) == IF m = 1 THEN <<1, 3>> ELSE IF m = 2 THEN <<1, 2>> ELSE <<3>>

\* pages (response.data.results, reduced to the movie ids) the provider answers with
Pages == {<<>>, <<1, 2>>, <<3, 2>>}

\* pages of 2, 5 and 10 movies, for runs that gather 20 candidates and more
TrendPages == {<<1, 2>>, <<1, 2, 3, 4, 5>>, <<1, 2, 3, 4, 5, 6, 7, 8, 9, 10>>}

\* what createUser stores
NoPreferences ==
  [genres |-> <<>>, languages |-> <<>>, favoriteMovies |-> <<>>, country |-> ""]
FullPreferences ==
  [genres |-> <<1, 2>>, languages |-> <<"en">>, favoriteMovies |-> <<>>,
   country |-> "US"]
CountryGenrePreferences ==
  [genres |-> <<1, 2>>, languages |-> <<>>, favoriteMovies |-> <<>>,
   country |-> "US"]
LanguagePreferences ==
  [genres |-> <<>>, languages |-> <<"en", "fr">>, favoriteMovies |-> <<>>,
   country |-> ""]
PrefValues == {NoPreferences, LanguagePreferences, CountryGenrePreferences}

Entry(m, g, l, c) ==
  [movieId |-> m, score |-> 0, genreMatch |-> g, languageMatch |-> l,
   collaborativeScore |-> c]

\* ------------------------------------------------------------------------
\* State
\* ------------------------------------------------------------------------
VARIABLES
  users,          \* table users: id -> [preferences, level, prefRev,
                  \*   experiencePoints, watchedCount]
  watchedMovies,  \* table watched_movies: user id -> movie ids, in row order
  movieRatings,   \* table movie_ratings: user id -> [movieId, rating] rows
  movieLikes,     \* table movie_likes: user id -> movie ids, in row order
  recRows,        \* table user_movie_recommendations: set of rows
  nextRecId,      \* the serial of user_movie_recommendations.id
  run,            \* request -> the frame of its generateRecommendationsForUser
  providerPages,  \* pages the provider can answer a query with
  runsLeft,       \* runs that may still start
  failsLeft,      \* provider calls that may still fail
  prefChangesLeft,\* preference updates that may still happen
  mInput,         \* argument of mergeAndScoreRecommendations called alone
  mOutput,        \* its result
  mDone,          \* whether it has been called
  storeFailsLeft, \* store calls of saveRecommendation that may still fail
  userChallenges, \* table user_challenges: set of rows
  rewarded,       \* (user, challenge) -> times its reward was added to the user
  opsLeft         \* calls of the interaction and challenge methods still to come

vars == <<users, watchedMovies, movieRatings, movieLikes, recRows, nextRecId,
          run, providerPages, runsLeft, failsLeft, prefChangesLeft,
          mInput, mOutput, mDone, storeFailsLeft, userChallenges, rewarded,
          opsLeft>>

storeVars == <<users, watchedMovies, movieRatings, movieLikes>>
mergeVars == <<mInput, mOutput, mDone>>
gameVars == <<userChallenges, rewarded, opsLeft>>

\* the requests; a specification runs those in the domain of run
Procs == 1..NumProcs

\* the frame of a request that is not running
IdleRun ==
  [pc |-> "idle", userId |-> 0, user |-> NoPreferences, prefRev |-> 0,
   userLevel |-> "Beginner", recommendations |-> <<>>,
   allRecommendations |-> <<>>, langIdx |-> 0,
   userWatchedMovies |-> <<>>, userRatings |-> <<>>,
   userMovieInteractions |-> <<>>, sampleIdx |-> 0,
   merged |-> <<>>, sorted |-> <<>>, saveIdx |-> 0, existing |-> 0,
   result |-> <<>>, error |-> "",
   queries |-> <<>>, answers |-> <<>>, failedCalls |-> 0, asIfEmpty |-> <<>>,
   cleared |-> FALSE, lastClear |-> FALSE, rowsBefore |-> {}, serialBefore |-> 0, written |-> 0,
   again |-> FALSE, firstQueries |-> <<>>, firstAnswers |-> <<>>,
   firstRows |-> {}, firstPrefRev |-> 0, firstPc |-> "",
   route |-> "", limit |-> 0, status |-> 0, response |-> <<>>,
   fetches |-> 0, generations |-> 0, rowsAtFirstFetch |-> 0,
   allResults |-> <<>>, passes |-> <<>>]
\* queries, answers, failedCalls, asIfEmpty, cleared, lastClear (this run's
\* clear is the latest clear of all runs), rowsBefore (the movie ids
\* of the user's rows when the run was called), serialBefore (the serial at
\* that time) and written record what the run has done; again and the first*
\* fields record, in a second call, what the first call did and left; the code
\* reads none of them.  route, limit, status and response belong to the route
\* handler that called the run; fetches, generations and rowsAtFirstFetch (the
\* recommended rows of the user at the first fetch) record what it has done.
\* allResults is the list of getOnboardingRecommendations, which keeps its
\* preferences in user; passes records, for each pass that ran, its name and
\* the ids it appended

\* ------------------------------------------------------------------------
\* Provider queries (the params of each axios.get)
\* ------------------------------------------------------------------------
NoQuery ==
  [endpoint |-> "", sort_by |-> "", region |-> "", with_genres |-> <<>>,
   with_original_language |-> "", vote_average_gte |-> 0,
   vote_count_gte |-> 0, with_keywords |-> "", movie |-> 0]

CountryQueryOf(preferences) ==
  [NoQuery EXCEPT !.endpoint = "discover/movie", !.region = preferences.country,
     !.sort_by = "popularity.desc", !.vote_count_gte = 50,
     !.with_original_language =
        IF Len(preferences.languages) > 0 THEN preferences.languages[1] ELSE "en"]

GenreQueryOf(genres) ==
  [NoQuery EXCEPT !.endpoint = "discover/movie", !.with_genres = genres,
     !.sort_by = "popularity.desc"]

LanguageQueryOf(language) ==
  [NoQuery EXCEPT !.endpoint = "discover/movie",
     !.with_original_language = language, !.sort_by = "vote_average.desc",
     !.vote_count_gte = 100]

\* the switch on the level name; vote_average_gte is in tenths
LevelQueryAsBeginner(level) ==
  [NoQuery EXCEPT !.endpoint = "discover/movie", !.sort_by = "popularity.desc",
     !.vote_average_gte = 75, !.vote_count_gte = 1000]
LevelQueryOf(level) ==
  CASE level = "Beginner" ->
         [NoQuery EXCEPT !.endpoint = "discover/movie", !.sort_by = "popularity.desc",
            !.vote_average_gte = 75, !.vote_count_gte = 1000]
    [] level = "Explorer" ->
         [NoQuery EXCEPT !.endpoint = "discover/movie", !.sort_by = "vote_average.desc",
            !.vote_count_gte = 500, !.with_keywords = "classic,acclaimed"]
    [] level = "Cinephile" ->
         [NoQuery EXCEPT !.endpoint = "discover/movie", !.sort_by = "vote_average.desc",
            !.vote_count_gte = 200, !.with_keywords = "arthouse,cult,foreign"]
    [] level = "Connoisseur" ->
         [NoQuery EXCEPT !.endpoint = "discover/movie", !.sort_by = "vote_average.desc",
            !.with_keywords = "experimental,masterpiece,auteur,avant-garde"]
    [] OTHER ->
         [NoQuery EXCEPT !.endpoint = "discover/movie", !.sort_by = "vote_average.desc",
            !.vote_count_gte = 1000]

SimilarQueryOf(movieId) ==
  [NoQuery EXCEPT !.endpoint = "movie/similar", !.movie = movieId]

TrendingQueryOf == [NoQuery EXCEPT !.endpoint = "trending/movie/week"]

\* ------------------------------------------------------------------------
\* The results.map(...) of each generator
\* ------------------------------------------------------------------------
CountryEntries(results) ==
  [i \in 1..Len(results) |-> Entry(results[i], 0, 0, CountryWeight)]

\* (matchingGenres.length / genres.length) * 1.2, in tenths
GenreMatchOf(movie, genres) ==
  (CountIncluded(GenreIdsOf(movie), genres) * GenreWeight) \div Len(genres)

GenreEntries(results, genres) ==
  [i \in 1..Len(results) |-> Entry(results[i], GenreMatchOf(results[i], genres), 0, 0)]

LanguageEntries(results) ==
  [i \in 1..Len(results) |-> Entry(results[i], 0, LanguageWeight, 0)]

LevelEntries(results) ==
  [i \in 1..Len(results) |-> Entry(results[i], 0, 0, LevelWeight)]

\* .filter(movie => !userMovieInteractions.has(movie.id)).map(...)
SimilarEntriesUnfiltered(results, userMovieInteractions) ==
  [i \in 1..Len(results) |-> Entry(results[i], 0, 0, CollaborativeWeight)]
SimilarEntries(results, userMovieInteractions) ==
  LET kept == SelectSeq(results, LAMBDA m : ~Includes(userMovieInteractions, m))
  IN [i \in 1..Len(kept) |-> Entry(kept[i], 0, 0, CollaborativeWeight)]

TrendingEntries(results) ==
  [i \in 1..Len(results) |-> Entry(results[i], 0, 0, TrendingWeight)]

\* userRatings.filter(rating => rating.rating >= 7).map(rating => rating.movieId)
HighlyRatedMovies(userRatings) ==
  LET high == SelectSeq(userRatings, LAMBDA r : r.rating >= HighRating)
  IN [i \in 1..Len(high) |-> high[i].movieId]

\* ------------------------------------------------------------------------
\* Provider answers
\* ------------------------------------------------------------------------
Responses ==
  {[ok |-> TRUE, results |-> pg] : pg \in providerPages}
    \cup (IF failsLeft > 0 THEN {[ok |-> FALSE, results |-> <<>>]} ELSE {})

\* the answers to the query a run issues next: any answer, except that a second
\* call that repeats the query the first call issued at that place gets the
\* answer the first call got (the provider has not changed in between)
ResponsesTo(rn, query) ==
  LET k == Len(rn.answers) + 1
  IN IF rn.again /\ k <= Len(rn.firstQueries) /\ rn.firstQueries[k] = query
     THEN {rn.firstAnswers[k]}
     ELSE Responses

\* the frame after a provider call: the query is logged, a failure counted
CalledUnlogged(rn, query, resp) == rn
Called(rn, query, resp) ==
  [rn EXCEPT !.queries = Append(@, query),
             !.answers = Append(@, resp),
             !.failedCalls = IF resp.ok THEN @ ELSE @ + 1]

\* recommendations = recommendations.concat(...); asIfEmpty follows the list a
\* run would build had every failed call answered an empty page
Concat(rn, entries, entriesIfEmpty) ==
  [rn EXCEPT !.recommendations = @ \o entries,
             !.asIfEmpty = @ \o entriesIfEmpty]

\* ------------------------------------------------------------------------
\* Control flow of generateRecommendationsForUser between two awaits that
\* reach the store or the provider
\* ------------------------------------------------------------------------
\* lines 93-112 when nothing is left to save: return the ids
Return(rn) ==
  [rn EXCEPT !.pc = "done", !.result = MapMovieIds(rn.sorted)]

\* lines 93-100: merge, sort, enter the save loop
Finish(rn) ==
  LET mergedRecommendations == mergeAndScoreRecommendations(rn.recommendations)
      sortedRecommendations == SortByScoreDesc(mergedRecommendations)
      next == [rn EXCEPT !.merged = mergedRecommendations,
                         !.sorted = sortedRecommendations]
  IN IF Len(sortedRecommendations) = 0
     THEN Return(next)
     ELSE [next EXCEPT !.pc = "saveSelect", !.saveIdx = 1]

\* lines 87-91: the trending fallback is called when fewer than 20 candidates
EnterTrendingAlways(rn) == [rn EXCEPT !.pc = "trending"]
EnterTrending(rn) ==
  IF Len(rn.recommendations) < TrendingThreshold
  THEN [rn EXCEPT !.pc = "trending"]
  ELSE Finish(rn)

\* line 84: the collaborative generator starts with three store reads
EnterCollaborative(rn) == [rn EXCEPT !.pc = "getWatchedMovies"]

\* line 80
EnterLevelSkipped(rn) == EnterCollaborative(rn)
EnterLevel(rn) == [rn EXCEPT !.pc = "level"]

\* line 76 and lines 166-172
EnterLanguage(rn) ==
  IF Len(rn.user.languages) = 0
  THEN EnterLevel(rn)
  ELSE [rn EXCEPT !.pc = "language", !.langIdx = 1, !.allRecommendations = <<>>]

\* line 72 and lines 120-121
EnterGenre(rn) ==
  IF Len(rn.user.genres) = 0
  THEN EnterLanguage(rn)
  ELSE [rn EXCEPT !.pc = "genre"]

\* line 68 and lines 211-212
EnterCountry(rn) ==
  IF rn.user.country = ""
  THEN EnterGenre(rn)
  ELSE [rn EXCEPT !.pc = "country"]

\* ------------------------------------------------------------------------
\* Catch blocks of the generators
\* ------------------------------------------------------------------------
\* lines 155-158, 238-241, 345-348, 447-450: the generator returns []
CatchRethrows(rn) == [rn EXCEPT !.pc = "failed", !.error = "provider"]
CatchReturnsEmpty(rn) == rn

\* lines 197-199 and 413-415: the catch is inside the loop, the entries of
\* the earlier iterations stay
CatchDropsAll(collected) == <<>>
CatchInsideLoop(collected) == collected

\* ------------------------------------------------------------------------
\* storage.saveRecommendation, second statement: the row it writes
\* ------------------------------------------------------------------------
RowValues(rec, old) ==
  [score |-> rec.score, genreMatch |-> rec.genreMatch,
   languageMatch |-> rec.languageMatch,
   collaborativeScore |-> rec.collaborativeScore]

NewRow(id, userId, rec, prefRev) ==
  LET v == RowValues(rec, [score |-> 0])
  IN [id |-> id, userId |-> userId, movieId |-> rec.movieId,
      score |-> v.score, genreMatch |-> v.genreMatch,
      languageMatch |-> v.languageMatch,
      collaborativeScore |-> v.collaborativeScore,
      recommended |-> TRUE, prefRev |-> prefRev]

UpdatedRow(row, rec, prefRev) ==
  LET v == RowValues(rec, row)
  IN [row EXCEPT !.score = v.score, !.genreMatch = v.genreMatch,
                 !.languageMatch = v.languageMatch,
                 !.collaborativeScore = v.collaborativeScore,
                 !.recommended = TRUE, !.prefRev = prefRev]

RowsOf(u) == {row \in recRows : row.userId = u}

\* the movie id and the four numbers of a stored row
ValuesOfRow(row) ==
  <<row.movieId, row.score, row.genreMatch, row.languageMatch,
    row.collaborativeScore>>

\* db.delete(userMovieRecommendations).where(eq(userId))
ClearedKeepsRows(rows, u) == rows
ClearedEveryUser(rows, u) == {}
ClearedRows(rows, u) == {row \in rows : row.userId # u}

\* ------------------------------------------------------------------------
\* storage.getUserRecommendations
\* ------------------------------------------------------------------------
\* where(and(eq(userId), eq(recommended, true)))
RecommendedRowsOf(u) == {row \in RowsOf(u) : row.recommended}

\* orderBy(desc(score)): the orders the store may give, rows of equal score
\* in any order
RECURSIVE OrderByScoreDesc(_)
OrderByScoreDesc(rows) ==
  IF rows = {} THEN {<<>>}
  ELSE UNION {{<<first>> \o others : others \in OrderByScoreDesc(rows \ {first})} :
                first \in {x \in rows : \A y \in rows : x.score >= y.score}}

\* LIMIT n of the store, n positive
LimitFromEnd(ordered, limit) ==
  SubSeq(ordered, Len(ordered) - Len(Slice(ordered, limit)) + 1, Len(ordered))
Limit(ordered, limit) == Slice(ordered, limit)

\* .limit(limit).  What the query builder makes of a limit that is not
\* positive depends on its release, which the repository does not fix: for 0
\* it emits LIMIT 0 or leaves the clause out, for a negative number it leaves
\* the clause out or emits a LIMIT that the store refuses.  Each outcome is
\* possible.
LimitOutcomes(ordered, limit) ==
  IF limit > 0 THEN {[ok |-> TRUE, rows |-> Limit(ordered, limit)]}
  ELSE IF limit = 0
       THEN {[ok |-> TRUE, rows |-> <<>>], [ok |-> TRUE, rows |-> ordered]}
       ELSE {[ok |-> TRUE, rows |-> ordered], [ok |-> FALSE, rows |-> <<>>]}

getUserRecommendations(u, limit) ==
  UNION {LimitOutcomes(ordered, limit) :
           ordered \in OrderByScoreDesc(RecommendedRowsOf(u))}

\* ------------------------------------------------------------------------
\* Actions
\* ------------------------------------------------------------------------
\* a request calls generateRecommendationsForUser(u)
Start(p, u) ==
  /\ p \in DOMAIN run
  /\ run[p].pc \in {"idle", "done", "failed", "answered"}
  /\ ~(run[p].route = "retrieve" /\ run[p].pc = "done")
  /\ runsLeft > 0
  /\ runsLeft' = runsLeft - 1
  /\ run' = [run EXCEPT ![p] =
       [IdleRun EXCEPT !.pc = "getUser", !.userId = u,
                       !.rowsBefore = {row.movieId : row \in RowsOf(u)},
                       !.serialBefore = nextRecId]]
  /\ UNCHANGED <<storeVars, recRows, nextRecId, providerPages, failsLeft,
                 prefChangesLeft, mergeVars, storeFailsLeft, gameVars>>

\* the caller of a finished generateRecommendationsForUser(u) calls it again
\* at once
StartAgain(p) ==
  /\ p \in DOMAIN run
  /\ run[p].pc \in {"done", "failed"}
  /\ run[p].route = ""
  /\ ~run[p].again
  /\ run' = [run EXCEPT ![p] =
       [IdleRun EXCEPT !.pc = "getUser", !.userId = run[p].userId,
                       !.rowsBefore = {row.movieId : row \in RowsOf(run[p].userId)},
                       !.serialBefore = nextRecId,
                       !.again = TRUE,
                       !.firstQueries = run[p].queries,
                       !.firstAnswers = run[p].answers,
                       !.firstRows = {ValuesOfRow(row) : row \in RowsOf(run[p].userId)},
                       !.firstPrefRev = run[p].prefRev,
                       !.firstPc = run[p].pc]]
  /\ UNCHANGED <<storeVars, recRows, nextRecId, providerPages, runsLeft,
                 failsLeft, prefChangesLeft, mergeVars, storeFailsLeft, gameVars>>

\* lines 55-56
GetUserUnchecked(p) ==
  /\ p \in DOMAIN run
  /\ run[p].pc = "getUser"
  /\ run' = [run EXCEPT ![p] =
       IF run[p].userId \in DOMAIN users
       THEN [@ EXCEPT !.pc = "clear",
                      !.user = users[run[p].userId].preferences,
                      !.prefRev = users[run[p].userId].prefRev]
       ELSE [@ EXCEPT !.pc = "clear"]]
  /\ UNCHANGED <<storeVars, recRows, nextRecId, providerPages, runsLeft,
                 failsLeft, prefChangesLeft, mergeVars, storeFailsLeft, gameVars>>
GetUser(p) ==
  /\ p \in DOMAIN run
  /\ run[p].pc = "getUser"
  /\ run' = [run EXCEPT ![p] =
       IF run[p].userId \in DOMAIN users
       THEN [@ EXCEPT !.pc = "clear",
                      !.user = users[run[p].userId].preferences,
                      !.prefRev = users[run[p].userId].prefRev]
       ELSE [@ EXCEPT !.pc = "failed", !.error = "User not found"]]
  /\ UNCHANGED <<storeVars, recRows, nextRecId, providerPages, runsLeft,
                 failsLeft, prefChangesLeft, mergeVars, storeFailsLeft, gameVars>>

\* the frames once request p has run its clear, which is now the latest one
AfterClearFirst(frames, p) ==
  [q \in DOMAIN frames |->
     IF q = p
     THEN [frames[q] EXCEPT !.pc = "getUserLevel", !.cleared = TRUE,
             !.lastClear = \A r \in DOMAIN frames : ~frames[r].lastClear]
     ELSE frames[q]]
AfterClear(frames, p) ==
  [q \in DOMAIN frames |->
     IF q = p
     THEN [frames[q] EXCEPT !.pc = "getUserLevel", !.cleared = TRUE,
                            !.lastClear = TRUE]
     ELSE [frames[q] EXCEPT !.lastClear = FALSE]]

\* line 59 and storage.clearUserRecommendations
Clear(p) ==
  /\ p \in DOMAIN run
  /\ run[p].pc = "clear"
  /\ recRows' = ClearedRows(recRows, run[p].userId)
  /\ run' = AfterClear(run, p)
  /\ UNCHANGED <<storeVars, nextRecId, providerPages, runsLeft, failsLeft,
                 prefChangesLeft, mergeVars, storeFailsLeft, gameVars>>

\* line 62 and storage.getUserLevel; the country generator follows
GetUserLevel(p) ==
  /\ p \in DOMAIN run
  /\ run[p].pc = "getUserLevel"
  /\ run' = [run EXCEPT ![p] =
       EnterCountry([@ EXCEPT !.userLevel =
          IF run[p].userId \in DOMAIN users /\ users[run[p].userId].level # ""
          THEN users[run[p].userId].level ELSE "Beginner"])]
  /\ UNCHANGED <<storeVars, recRows, nextRecId, providerPages, runsLeft,
                 failsLeft, prefChangesLeft, mergeVars, storeFailsLeft, gameVars>>

ProviderFrame(resp) ==
  /\ failsLeft' = IF resp.ok \/ failsLeft = 0 THEN failsLeft ELSE failsLeft - 1
  /\ UNCHANGED <<storeVars, recRows, nextRecId, providerPages, runsLeft,
                 prefChangesLeft, mergeVars, storeFailsLeft, gameVars>>

\* getCountryBasedRecommendations, the axios.get and what follows it
CountryQuery(p) ==
  /\ p \in DOMAIN run
  /\ run[p].pc = "country"
  /\ \E resp \in ResponsesTo(run[p], CountryQueryOf(run[p].user)) :
       LET rn == Called(run[p], CountryQueryOf(run[p].user), resp)
       IN /\ run' = [run EXCEPT ![p] =
               IF resp.ok
               THEN EnterGenre(Concat(rn, CountryEntries(resp.results),
                                      CountryEntries(resp.results)))
               ELSE LET caught == CatchReturnsEmpty(
                                    Concat(rn, <<>>, CountryEntries(<<>>)))
                    IN IF caught.pc = "failed" THEN caught
                       ELSE EnterGenre(caught)]
          /\ ProviderFrame(resp)

\* getGenreBasedRecommendations, the axios.get and what follows it
GenreQuery(p) ==
  /\ p \in DOMAIN run
  /\ run[p].pc = "genre"
  /\ \E resp \in ResponsesTo(run[p], GenreQueryOf(run[p].user.genres)) :
       LET genres == run[p].user.genres
           rn == Called(run[p], GenreQueryOf(genres), resp)
       IN /\ run' = [run EXCEPT ![p] =
               IF resp.ok
               THEN EnterLanguage(Concat(rn, GenreEntries(resp.results, genres),
                                         GenreEntries(resp.results, genres)))
               ELSE LET caught == CatchReturnsEmpty(
                                    Concat(rn, <<>>, GenreEntries(<<>>, genres)))
                    IN IF caught.pc = "failed" THEN caught
                       ELSE EnterLanguage(caught)]
          /\ ProviderFrame(resp)

\* getLanguageBasedRecommendations, one iteration of the loop over languages
LanguageQuery(p) ==
  /\ p \in DOMAIN run
  /\ run[p].pc = "language"
  /\ \E resp \in ResponsesTo(run[p],
                     LanguageQueryOf(run[p].user.languages[run[p].langIdx])) :
       LET languages == run[p].user.languages
           rn == Called(run[p], LanguageQueryOf(languages[run[p].langIdx]), resp)
           collected == IF resp.ok
                        THEN rn.allRecommendations \o LanguageEntries(resp.results)
                        ELSE CatchInsideLoop(rn.allRecommendations)
           ifEmpty == LanguageEntries(IF resp.ok THEN resp.results ELSE <<>>)
       IN /\ run' = [run EXCEPT ![p] =
               IF rn.langIdx < Len(languages)
               THEN Concat([rn EXCEPT !.langIdx = @ + 1,
                                      !.allRecommendations = collected],
                           <<>>, ifEmpty)
               ELSE EnterLevel(Concat([rn EXCEPT !.allRecommendations = <<>>],
                                      collected, ifEmpty))]
          /\ ProviderFrame(resp)

\* getLevelBasedRecommendations, the axios.get and what follows it
LevelQuery(p) ==
  /\ p \in DOMAIN run
  /\ run[p].pc = "level"
  /\ \E resp \in ResponsesTo(run[p], LevelQueryOf(run[p].userLevel)) :
       LET rn == Called(run[p], LevelQueryOf(run[p].userLevel), resp)
       IN /\ run' = [run EXCEPT ![p] =
               IF resp.ok
               THEN EnterCollaborative(Concat(rn, LevelEntries(resp.results),
                                              LevelEntries(resp.results)))
               ELSE LET caught == CatchReturnsEmpty(
                                    Concat(rn, <<>>, LevelEntries(<<>>)))
                    IN IF caught.pc = "failed" THEN caught
                       ELSE EnterCollaborative(caught)]
          /\ ProviderFrame(resp)

\* getCollaborativeRecommendations, line 359
GetWatchedMovies(p) ==
  /\ p \in DOMAIN run
  /\ run[p].pc = "getWatchedMovies"
  /\ run' = [run EXCEPT ![p] =
       [@ EXCEPT !.pc = "getUserRatings",
                 !.userWatchedMovies = watchedMovies[run[p].userId]]]
  /\ UNCHANGED <<storeVars, recRows, nextRecId, providerPages, runsLeft,
                 failsLeft, prefChangesLeft, mergeVars, storeFailsLeft, gameVars>>

\* getCollaborativeRecommendations, line 360
GetUserRatings(p) ==
  /\ p \in DOMAIN run
  /\ run[p].pc = "getUserRatings"
  /\ run' = [run EXCEPT ![p] =
       [@ EXCEPT !.pc = "getUserLikes",
                 !.userRatings = movieRatings[run[p].userId]]]
  /\ UNCHANGED <<storeVars, recRows, nextRecId, providerPages, runsLeft,
                 failsLeft, prefChangesLeft, mergeVars, storeFailsLeft, gameVars>>

\* getCollaborativeRecommendations, lines 361-385
GetUserLikes(p) ==
  /\ p \in DOMAIN run
  /\ run[p].pc = "getUserLikes"
  /\ LET userLikes == movieLikes[run[p].userId]
         userMovieInteractions ==
           Distinct(run[p].userWatchedMovies
                      \o HighlyRatedMovies(run[p].userRatings) \o userLikes)
         rn == [run[p] EXCEPT !.userMovieInteractions = userMovieInteractions]
     IN run' = [run EXCEPT ![p] =
          IF Len(userMovieInteractions) = 0
          THEN EnterTrending(rn)
          ELSE [rn EXCEPT !.pc = "similar", !.sampleIdx = 1,
                          !.allRecommendations = <<>>]]
  /\ UNCHANGED <<storeVars, recRows, nextRecId, providerPages, runsLeft,
                 failsLeft, prefChangesLeft, mergeVars, storeFailsLeft, gameVars>>

\* getCollaborativeRecommendations, one iteration of the loop over sampleMovies
SimilarQuery(p) ==
  /\ p \in DOMAIN run
  /\ run[p].pc = "similar"
  /\ \E resp \in ResponsesTo(run[p],
                     SimilarQueryOf(Slice(run[p].userMovieInteractions,
                                          SampleCap)[run[p].sampleIdx])) :
       LET interactions == run[p].userMovieInteractions
           sampleMovies == Slice(interactions, SampleCap)
           rn == Called(run[p], SimilarQueryOf(sampleMovies[run[p].sampleIdx]), resp)
           collected == IF resp.ok
                        THEN rn.allRecommendations
                               \o SimilarEntries(resp.results, interactions)
                        ELSE CatchInsideLoop(rn.allRecommendations)
           ifEmpty == SimilarEntries(IF resp.ok THEN resp.results ELSE <<>>,
                                     interactions)
       IN /\ run' = [run EXCEPT ![p] =
               IF rn.sampleIdx < Len(sampleMovies)
               THEN Concat([rn EXCEPT !.sampleIdx = @ + 1,
                                      !.allRecommendations = collected],
                           <<>>, ifEmpty)
               ELSE EnterTrending(Concat([rn EXCEPT !.allRecommendations = <<>>],
                                         collected, ifEmpty))]
          /\ ProviderFrame(resp)

\* getTrendingRecommendations, then lines 93-100
TrendingQuery(p) ==
  /\ p \in DOMAIN run
  /\ run[p].pc = "trending"
  /\ \E resp \in ResponsesTo(run[p], TrendingQueryOf) :
       LET rn == Called(run[p], TrendingQueryOf, resp)
       IN /\ run' = [run EXCEPT ![p] =
               IF resp.ok
               THEN Finish(Concat(rn, TrendingEntries(resp.results),
                                  TrendingEntries(resp.results)))
               ELSE LET caught == CatchReturnsEmpty(
                                    Concat(rn, <<>>, TrendingEntries(<<>>)))
                    IN IF caught.pc = "failed" THEN caught
                       ELSE Finish(caught)]
          /\ ProviderFrame(resp)

\* storage.saveRecommendation, lines 375-378: look for a row of (user, movie).
\* The select has no ORDER BY: with several such rows any of them comes first.
SaveSelect(p) ==
  /\ p \in DOMAIN run
  /\ run[p].pc = "saveSelect"
  /\ LET rec == run[p].sorted[run[p].saveIdx]
         found == {row \in RowsOf(run[p].userId) : row.movieId = rec.movieId}
     IN IF found = {}
        THEN run' = [run EXCEPT ![p] = [@ EXCEPT !.pc = "saveWrite", !.existing = 0]]
        ELSE \E row \in found :
               run' = [run EXCEPT ![p] =
                         [@ EXCEPT !.pc = "saveWrite", !.existing = row.id]]
  /\ UNCHANGED <<storeVars, recRows, nextRecId, providerPages, runsLeft,
                 failsLeft, prefChangesLeft, mergeVars, storeFailsLeft, gameVars>>

\* storage.saveRecommendation, lines 380-408: update the row found, or insert;
\* then the next entry of the loop at line 100, or the return at line 112
SaveWrite(p) ==
  /\ p \in DOMAIN run
  /\ run[p].pc = "saveWrite"
  /\ LET rn == run[p]
         rec == rn.sorted[rn.saveIdx]
         after == IF rn.saveIdx < Len(rn.sorted)
                  THEN [rn EXCEPT !.pc = "saveSelect", !.saveIdx = @ + 1,
                                  !.existing = 0, !.written = @ + 1]
                  ELSE Return([rn EXCEPT !.existing = 0, !.written = @ + 1])
     IN /\ IF rn.existing # 0
           THEN /\ recRows' = {IF row.id = rn.existing
                               THEN UpdatedRow(row, rec, rn.prefRev)
                               ELSE row : row \in recRows}
                /\ nextRecId' = nextRecId
           ELSE /\ recRows' = recRows
                     \cup {NewRow(nextRecId, rn.userId, rec, rn.prefRev)}
                /\ nextRecId' = nextRecId + 1
        /\ run' = [run EXCEPT ![p] = after]
  /\ UNCHANGED <<storeVars, providerPages, runsLeft, failsLeft,
                 prefChangesLeft, mergeVars, storeFailsLeft, gameVars>>

\* the table after a statement of saveRecommendation has failed: the saves
\* are separate statements outside any transaction, so nothing is undone
AfterFailedSaveRolledBack(rows, u) == {row \in rows : row.userId # u}
AfterFailedSave(rows, u) == rows

\* the frame after a store call of the run has raised: nothing in
\* generateRecommendationsForUser catches it, the call rejects
StoreRaised(rn, statement) == [rn EXCEPT !.pc = "failed", !.error = statement]

\* storage.saveRecommendation, lines 375-378: the select raises
SaveSelectFails(p) ==
  /\ p \in DOMAIN run
  /\ run[p].pc = "saveSelect"
  /\ storeFailsLeft > 0
  /\ storeFailsLeft' = storeFailsLeft - 1
  /\ recRows' = AfterFailedSave(recRows, run[p].userId)
  /\ run' = [run EXCEPT ![p] = StoreRaised(@, "select")]
  /\ UNCHANGED <<storeVars, nextRecId, providerPages, runsLeft, failsLeft,
                 prefChangesLeft, mergeVars, gameVars>>

\* storage.saveRecommendation, lines 380-408: the update or the insert raises
SaveWriteFails(p) ==
  /\ p \in DOMAIN run
  /\ run[p].pc = "saveWrite"
  /\ storeFailsLeft > 0
  /\ storeFailsLeft' = storeFailsLeft - 1
  /\ recRows' = AfterFailedSave(recRows, run[p].userId)
  /\ run' = [run EXCEPT ![p] = StoreRaised(@, "write")]
  /\ UNCHANGED <<storeVars, nextRecId, providerPages, runsLeft, failsLeft,
                 prefChangesLeft, mergeVars, gameVars>>

\* GET /api/recommendations, lines 354-366: the first fetch, then either the
\* answer or the call of generateRecommendationsForUser.  The user is the
\* authenticated one, so a stored one; when the fetch raises, the handler
\* answers 500 (lines 367-370).
Retrieve(p, u, limit) ==
  /\ p \in DOMAIN run
  /\ run[p].pc \in {"idle", "done", "failed", "answered"}
  /\ ~(run[p].route = "retrieve" /\ run[p].pc = "done")
  /\ u \in DOMAIN users
  /\ runsLeft > 0
  /\ runsLeft' = runsLeft - 1
  /\ LET arrived == [IdleRun EXCEPT !.userId = u, !.route = "retrieve",
                                    !.limit = limit, !.fetches = 1,
                                    !.rowsAtFirstFetch =
                                       Cardinality(RecommendedRowsOf(u)),
                                    !.rowsBefore = {row.movieId : row \in RowsOf(u)},
                                    !.serialBefore = nextRecId]
     IN \E fetched \in getUserRecommendations(u, limit) :
          LET recommendations == fetched.rows
          IN run' = [run EXCEPT ![p] =
               IF ~fetched.ok
               THEN [arrived EXCEPT !.pc = "answered", !.status = 500]
               ELSE IF Len(recommendations) = 0
               THEN [arrived EXCEPT !.pc = "getUser", !.generations = 1]
               ELSE [arrived EXCEPT !.pc = "answered", !.status = 200,
                                    !.response = recommendations]]
  /\ UNCHANGED <<storeVars, recRows, nextRecId, providerPages, failsLeft,
                 prefChangesLeft, mergeVars, storeFailsLeft, gameVars>>

\* GET /api/recommendations, lines 362-363: the fetch after the run, and the
\* answer
RetrieveAgain(p) ==
  /\ p \in DOMAIN run
  /\ run[p].route = "retrieve"
  /\ run[p].pc = "done"
  /\ \E fetched \in getUserRecommendations(run[p].userId, run[p].limit) :
       LET freshRecommendations == fetched.rows
       IN run' = [run EXCEPT ![p] =
            IF ~fetched.ok
            THEN [@ EXCEPT !.pc = "answered", !.status = 500, !.fetches = @ + 1]
            ELSE [@ EXCEPT !.pc = "answered", !.status = 200,
                           !.response = freshRecommendations,
                           !.fetches = @ + 1]]
  /\ UNCHANGED <<storeVars, recRows, nextRecId, providerPages, runsLeft,
                 failsLeft, prefChangesLeft, mergeVars, storeFailsLeft, gameVars>>

\* ------------------------------------------------------------------------
\* getOnboardingRecommendations
\* ------------------------------------------------------------------------
PopularQueryOf == [NoQuery EXCEPT !.endpoint = "movie/popular"]

\* lines 514-527; languages[0] is the first language
CombinedQueryOf(preferences) ==
  [NoQuery EXCEPT !.endpoint = "discover/movie",
     !.with_genres = preferences.genres,
     !.with_original_language =
        IF Len(preferences.languages) > 0 THEN preferences.languages[1] ELSE "",
     !.region = preferences.country, !.sort_by = "popularity.desc"]

\* lines 541-548
OnboardingCountryQueryOf(preferences) ==
  [NoQuery EXCEPT !.endpoint = "discover/movie", !.region = preferences.country,
     !.sort_by = "popularity.desc"]

\* lines 568-580; languages?.[0] is undefined when there is no language
GenreLanguageQueryOf(preferences) ==
  [NoQuery EXCEPT !.endpoint = "discover/movie",
     !.with_genres = preferences.genres,
     !.with_original_language =
        IF Len(preferences.languages) > 0 THEN preferences.languages[1] ELSE "",
     !.sort_by = "popularity.desc"]

\* results.filter(movie => !existingIds.has(movie.id))
NewMoviesAll(allResults, results) == results
NewMovies(allResults, results) ==
  SelectSeq(results, LAMBDA movie : ~Includes(allResults, movie))

\* response.data.results.slice(0, 20).map(movie => movie.id), line 505
PopularIdsAll(results) == results
PopularIds(results) == Slice(results, OnboardingCap)

\* allResults.push(...) of a pass; a pass whose call failed pushes nothing
Pushed(rn, pass, movies) ==
  [rn EXCEPT !.allResults = @ \o movies,
             !.passes = Append(@, [pass |-> pass, movies |-> movies])]

\* line 614: return allResults.slice(0, 20).map(movie => movie.id)
OnboardingReturn(rn) ==
  [rn EXCEPT !.pc = "returned", !.result = Slice(rn.allResults, OnboardingCap)]

\* lines 597-598
EnterFallbackNever(rn) == OnboardingReturn(rn)
EnterFallback(rn) ==
  IF Len(rn.allResults) = 0
  THEN [rn EXCEPT !.pc = "fallback"]
  ELSE OnboardingReturn(rn)

\* line 566
EnterGenreLanguage(rn) ==
  IF (Len(rn.user.genres) > 0 \/ Len(rn.user.languages) > 0)
     /\ Len(rn.allResults) < OnboardingEnough
  THEN [rn EXCEPT !.pc = "genreLanguage"]
  ELSE EnterFallback(rn)

\* line 539
EnterOnboardingCountryAlways(rn) ==
  IF rn.user.country # ""
  THEN [rn EXCEPT !.pc = "onboardingCountry"]
  ELSE EnterGenreLanguage(rn)
EnterOnboardingCountry(rn) ==
  IF rn.user.country # "" /\ Len(rn.allResults) < OnboardingEnough
  THEN [rn EXCEPT !.pc = "onboardingCountry"]
  ELSE EnterGenreLanguage(rn)

\* line 512
EnterCombined(rn) ==
  IF Len(rn.user.genres) > 0 /\ Len(rn.user.languages) > 0 /\ rn.user.country # ""
  THEN [rn EXCEPT !.pc = "combined"]
  ELSE EnterOnboardingCountry(rn)

\* a call of getOnboardingRecommendations(preferences), lines 490-493
Onboard(p, preferences) ==
  /\ p \in DOMAIN run
  /\ run[p].pc \in {"idle", "returned"}
  /\ runsLeft > 0
  /\ runsLeft' = runsLeft - 1
  /\ LET rn == [IdleRun EXCEPT !.route = "onboarding", !.user = preferences]
     IN run' = [run EXCEPT ![p] =
          IF Len(preferences.genres) = 0 /\ Len(preferences.languages) = 0
             /\ preferences.country = ""
          THEN [rn EXCEPT !.pc = "popular"]
          ELSE EnterCombined(rn)]
  /\ UNCHANGED <<storeVars, recRows, nextRecId, providerPages, failsLeft,
                 prefChangesLeft, mergeVars, storeFailsLeft, gameVars>>

\* lines 494-505; a failure reaches the catch at line 615, which returns []
PopularQuery(p) ==
  /\ p \in DOMAIN run
  /\ run[p].pc = "popular"
  /\ \E resp \in Responses :
       LET rn == Called(run[p], PopularQueryOf, resp)
       IN /\ run' = [run EXCEPT ![p] =
               IF resp.ok
               THEN [rn EXCEPT !.pc = "returned",
                               !.result = PopularIds(resp.results)]
               ELSE [rn EXCEPT !.pc = "returned", !.result = <<>>]]
          /\ ProviderFrame(resp)

\* lines 513-535
CombinedQuery(p) ==
  /\ p \in DOMAIN run
  /\ run[p].pc = "combined"
  /\ \E resp \in Responses :
       LET rn == Called(run[p], CombinedQueryOf(run[p].user), resp)
       IN /\ run' = [run EXCEPT ![p] =
               EnterOnboardingCountry(
                 Pushed(rn, "combined", IF resp.ok THEN resp.results ELSE <<>>))]
          /\ ProviderFrame(resp)

\* lines 540-562
OnboardingCountryQuery(p) ==
  /\ p \in DOMAIN run
  /\ run[p].pc = "onboardingCountry"
  /\ \E resp \in Responses :
       LET rn == Called(run[p], OnboardingCountryQueryOf(run[p].user), resp)
       IN /\ run' = [run EXCEPT ![p] =
               EnterGenreLanguage(
                 Pushed(rn, "country",
                        IF resp.ok THEN NewMovies(rn.allResults, resp.results)
                        ELSE <<>>))]
          /\ ProviderFrame(resp)

\* lines 567-594
GenreLanguageQuery(p) ==
  /\ p \in DOMAIN run
  /\ run[p].pc = "genreLanguage"
  /\ \E resp \in Responses :
       LET rn == Called(run[p], GenreLanguageQueryOf(run[p].user), resp)
       IN /\ run' = [run EXCEPT ![p] =
               EnterFallback(
                 Pushed(rn, "genreLanguage",
                        IF resp.ok THEN NewMovies(rn.allResults, resp.results)
                        ELSE <<>>))]
          /\ ProviderFrame(resp)

\* lines 599-614; a failure reaches the catch at line 615, which returns []
FallbackQuery(p) ==
  /\ p \in DOMAIN run
  /\ run[p].pc = "fallback"
  /\ \E resp \in Responses :
       LET rn == Called(run[p], PopularQueryOf, resp)
       IN /\ run' = [run EXCEPT ![p] =
               IF resp.ok
               THEN OnboardingReturn(Pushed(rn, "popular", resp.results))
               ELSE [Pushed(rn, "popular", <<>>) EXCEPT
                       !.pc = "returned", !.result = <<>>]]
          /\ ProviderFrame(resp)

\* ------------------------------------------------------------------------
\* Experience, watched movies and challenges (storage.ts).  The calls come one
\* after another; each action is one call, with every statement it runs.
\* ------------------------------------------------------------------------
\* the rows schema.ts seeds into challenges; required_count has its default
Challenges ==
  (1 :> [requiredLevel |-> "Beginner", requiredCount |-> 1, experienceReward |-> 20])
  @@ (2 :> [requiredLevel |-> "Explorer", requiredCount |-> 1, experienceReward |-> 30])
  @@ (3 :> [requiredLevel |-> "Cinephile", requiredCount |-> 1, experienceReward |-> 35])

ChallengeIds == DOMAIN Challenges

RateXp == 7             \* rateMovie
LikeXp == 3             \* likeMovie
WatchXp == 5            \* markAsWatched
ExplorerXp == 51        \* updateUserExperience
CinephileXp == 151
ConnoisseurXp == 301
DefaultReward == 20     \* experienceReward || 20

\* the level a mistaken boundary would select
LevelForXpExclusive(newXp) ==
  IF newXp > ConnoisseurXp THEN "Connoisseur"
  ELSE IF newXp > CinephileXp THEN "Cinephile"
  ELSE IF newXp > ExplorerXp THEN "Explorer"
  ELSE "Beginner"

\* updateUserExperience, lines 131-135
LevelForXp(newXp) ==
  IF newXp >= ConnoisseurXp THEN "Connoisseur"
  ELSE IF newXp >= CinephileXp THEN "Cinephile"
  ELSE IF newXp >= ExplorerXp THEN "Explorer"
  ELSE "Beginner"

\* updateUserExperience on the users table
updateUserExperience(table, userId, xpPoints) ==
  IF userId \notin DOMAIN table THEN table
  ELSE LET newXp == table[userId].experiencePoints + xpPoints
       IN [table EXCEPT ![userId] =
             [@ EXCEPT !.experiencePoints = newXp, !.level = LevelForXp(newXp)]]

\* checkChallengeProgress, lines 574-585
LevelOrder(level) ==
  CASE level = "Explorer" -> 1
    [] level = "Cinephile" -> 2
    [] level = "Connoisseur" -> 3
    [] OTHER -> 0

\* the reward of challenge c goes to u: experienceReward || 20
Awarded(db, u, c) ==
  [db EXCEPT
     !.users = updateUserExperience(db.users, u,
                 IF Challenges[c].experienceReward # 0
                 THEN Challenges[c].experienceReward ELSE DefaultReward),
     !.rewarded = [@ EXCEPT ![<<u, c>>] = @ + 1]]

RowsOfChallenge(rows, u, c) ==
  {row \in rows : row.userId = u /\ row.challengeId = c}

\* startChallenge
startChallenge(db, u, c) ==
  IF RowsOfChallenge(db.userChallenges, u, c) # {} THEN db
  ELSE [db EXCEPT !.userChallenges =
          @ \cup {[userId |-> u, challengeId |-> c, progress |-> 0,
                   completed |-> FALSE]}]

\* updateChallengeProgress on db = [users, userChallenges, rewarded]
updateChallengeProgress(db, u, c, progress) ==
  LET existing == RowsOfChallenge(db.userChallenges, u, c)
  IN IF existing = {} THEN startChallenge(db, u, c)
     ELSE IF \E row \in existing : row.completed THEN db
     ELSE LET completed == progress >= Challenges[c].requiredCount
              paid == IF completed THEN Awarded(db, u, c) ELSE db
          IN [paid EXCEPT !.userChallenges =
                {IF row \in existing
                 THEN [row EXCEPT !.progress = progress, !.completed = completed]
                 ELSE row : row \in @}]

\* completeChallenge: the reward is added before the row is looked at
completeChallenge(db, u, c) ==
  LET paid == Awarded(db, u, c)
      existing == RowsOfChallenge(db.userChallenges, u, c)
      done == [userId |-> u, challengeId |-> c,
               progress |-> Challenges[c].requiredCount, completed |-> TRUE]
  IN [paid EXCEPT !.userChallenges = (@ \ existing) \cup {done}]

\* checkChallengeProgress: the loop over the challenges of the user's level
\* or below, in id order, each with the number of watched rows as progress
RECURSIVE CheckLoop(_, _, _, _)
CheckLoop(db, u, ids, progress) ==
  IF ids = <<>> THEN db
  ELSE CheckLoop(updateChallengeProgress(db, u, Head(ids), progress), u,
                 Tail(ids), progress)

AvailableChallenges(level) ==
  LET RECURSIVE Upto(_)
      Upto(c) == IF c = 0 THEN <<>>
                 ELSE IF LevelOrder(Challenges[c].requiredLevel) <= LevelOrder(level)
                      THEN Append(Upto(c - 1), c) ELSE Upto(c - 1)
  IN Upto(Cardinality(ChallengeIds))

Db == [users |-> users, userChallenges |-> userChallenges, rewarded |-> rewarded]

GameFrame(db) ==
  /\ opsLeft > 0
  /\ opsLeft' = opsLeft - 1
  /\ users' = db.users
  /\ userChallenges' = db.userChallenges
  /\ rewarded' = db.rewarded
  /\ UNCHANGED <<recRows, nextRecId, run, providerPages, runsLeft, failsLeft,
                 prefChangesLeft, mergeVars, storeFailsLeft>>

\* rateMovie: 7 points at every call, then the row is updated or inserted
RateMovie(u, m, rating) ==
  /\ u \in DOMAIN users
  /\ GameFrame([Db EXCEPT !.users = updateUserExperience(users, u, RateXp)])
  /\ movieRatings' = [movieRatings EXCEPT ![u] =
       IF \E i \in 1..Len(@) : @[i].movieId = m
       THEN [i \in 1..Len(@) |->
               IF @[i].movieId = m THEN [@[i] EXCEPT !.rating = rating] ELSE @[i]]
       ELSE Append(@, [movieId |-> m, rating |-> rating])]
  /\ UNCHANGED <<watchedMovies, movieLikes>>

\* likeMovie: nothing when liked already, else 3 points and the row
LikeMovie(u, m) ==
  /\ u \in DOMAIN users
  /\ IF Includes(movieLikes[u], m)
     THEN GameFrame(Db) /\ movieLikes' = movieLikes
     ELSE /\ GameFrame([Db EXCEPT !.users = updateUserExperience(users, u, LikeXp)])
          /\ movieLikes' = [movieLikes EXCEPT ![u] = Append(@, m)]
  /\ UNCHANGED <<watchedMovies, movieRatings>>

\* markAsWatched: nothing when watched already, else 5 points, the count,
\* the row, and checkChallengeProgress
MarkAsWatched(u, m) ==
  /\ u \in DOMAIN users
  /\ IF Includes(watchedMovies[u], m)
     THEN GameFrame(Db) /\ watchedMovies' = watchedMovies
     ELSE LET paid == updateUserExperience(users, u, WatchXp)
              counted == [paid EXCEPT ![u] = [@ EXCEPT !.watchedCount = @ + 1]]
              rows == Append(watchedMovies[u], m)
          IN /\ GameFrame(CheckLoop([Db EXCEPT !.users = counted], u,
                                    AvailableChallenges(counted[u].level),
                                    Len(rows)))
             /\ watchedMovies' = [watchedMovies EXCEPT ![u] = rows]
  /\ UNCHANGED <<movieRatings, movieLikes>>

\* the value of `result` in `if (result)`, line 335: what db.delete resolves
\* to is an object also when it deleted no row
DeleteResultTruthy(before, after) == TRUE

\* unmarkAsWatched: the delete, then GREATEST(watched_count - 1, 0)
UnmarkAsWatched(u, m) ==
  /\ u \in DOMAIN users
  /\ LET rows == SelectSeq(watchedMovies[u], LAMBDA w : w # m)
     IN /\ watchedMovies' = [watchedMovies EXCEPT ![u] = rows]
        /\ GameFrame(
             IF DeleteResultTruthy(watchedMovies[u], rows)
             THEN [Db EXCEPT !.users[u].watchedCount =
                     IF @ - 1 > 0 THEN @ - 1 ELSE 0]
             ELSE Db)
  /\ UNCHANGED <<movieRatings, movieLikes>>

\* PUT /api/challenges/:challengeId/progress
UpdateChallengeProgress(u, c, progress) ==
  /\ u \in DOMAIN users
  /\ GameFrame(updateChallengeProgress(Db, u, c, progress))
  /\ UNCHANGED <<watchedMovies, movieRatings, movieLikes>>

\* POST /api/challenges/:challengeId/complete
CompleteChallenge(u, c) ==
  /\ u \in DOMAIN users
  /\ GameFrame(completeChallenge(Db, u, c))
  /\ UNCHANGED <<watchedMovies, movieRatings, movieLikes>>

\* PUT /api/preferences and storage.updateUserPreferences
UpdatePreferences(u, preferences) ==
  /\ prefChangesLeft > 0
  /\ u \in DOMAIN users
  /\ preferences # users[u].preferences
  /\ prefChangesLeft' = prefChangesLeft - 1
  /\ users' = [users EXCEPT ![u] =
       [@ EXCEPT !.preferences = preferences, !.prefRev = @ + 1]]
  /\ UNCHANGED <<watchedMovies, movieRatings, movieLikes, recRows, nextRecId,
                 run, providerPages, runsLeft, failsLeft, mergeVars, storeFailsLeft, gameVars>>

\* mergeAndScoreRecommendations called on its own
Merge ==
  /\ ~mDone
  /\ mOutput' = mergeAndScoreRecommendations(mInput)
  /\ mDone' = TRUE
  /\ UNCHANGED <<storeVars, recRows, nextRecId, run, providerPages, runsLeft,
                 failsLeft, prefChangesLeft, mInput, storeFailsLeft, gameVars>>

\* ------------------------------------------------------------------------
\* Specifications
\* ------------------------------------------------------------------------
StoredUser(preferences) ==
  [preferences |-> preferences, level |-> "Beginner", prefRev |-> 0,
   experiencePoints |-> 0, watchedCount |-> 0]

NoInteractions == [u \in UserIds |-> <<>>]

InitMergeIdle ==
  /\ mInput = <<>>
  /\ mOutput = <<>>
  /\ mDone = TRUE

\* no challenge started, no interaction or challenge call to come
InitGameIdle ==
  /\ userChallenges = {}
  /\ rewarded = <<>>
  /\ opsLeft = 0

\* requests in flight together, one stored user with all preferences set and
\* one watched movie, a provider that answers every query with the same page
Init ==
  /\ users = (1 :> StoredUser(FullPreferences))
  /\ watchedMovies = [NoInteractions EXCEPT ![1] = <<3>>]
  /\ movieRatings = NoInteractions
  /\ movieLikes = NoInteractions
  /\ recRows = {}
  /\ nextRecId = 1
  /\ run = [p \in Procs |-> IdleRun]
  /\ providerPages = {<<1, 2>>}
  /\ runsLeft = NumProcs
  /\ failsLeft = 0
  /\ prefChangesLeft = MaxPrefChanges
  /\ InitMergeIdle
  /\ storeFailsLeft = 0
  /\ InitGameIdle

RunStep ==
  \/ \E p \in Procs, u \in UserIds : Start(p, u)
  \/ \E p \in Procs : GetUser(p)
  \/ \E p \in Procs : Clear(p)
  \/ \E p \in Procs : GetUserLevel(p)
  \/ \E p \in Procs : CountryQuery(p)
  \/ \E p \in Procs : GenreQuery(p)
  \/ \E p \in Procs : LanguageQuery(p)
  \/ \E p \in Procs : LevelQuery(p)
  \/ \E p \in Procs : GetWatchedMovies(p)
  \/ \E p \in Procs : GetUserRatings(p)
  \/ \E p \in Procs : GetUserLikes(p)
  \/ \E p \in Procs : SimilarQuery(p)
  \/ \E p \in Procs : TrendingQuery(p)
  \/ \E p \in Procs : SaveSelect(p)
  \/ \E p \in Procs : SaveWrite(p)

Next ==
  \/ RunStep
  \/ \E u \in UserIds, preferences \in PrefValues : UpdatePreferences(u, preferences)

Spec == Init /\ [][Next]_vars

\* the rows an earlier run for user 1 left: no preferences, no interaction,
\* the level query answered with movies 1 and 2, the trending query with 3 and 2
PriorEntries ==
  SortByScoreDesc(mergeAndScoreRecommendations(
    LevelEntries(<<1, 2>>) \o TrendingEntries(<<3, 2>>)))

PriorRows == {NewRow(i, 1, PriorEntries[i], 0) : i \in 1..Len(PriorEntries)}

\* one request at a time: the user as createUser stores it, either before any
\* run, or after an earlier run and after watching movie 3; every page and
\* failing calls
InitSeq ==
  /\ users = (1 :> StoredUser(NoPreferences))
  /\ \/ /\ watchedMovies = NoInteractions
        /\ recRows = {}
        /\ nextRecId = 1
     \/ /\ watchedMovies = [NoInteractions EXCEPT ![1] = <<3>>]
        /\ recRows = PriorRows
        /\ nextRecId = Len(PriorEntries) + 1
  /\ movieRatings = NoInteractions
  /\ movieLikes = NoInteractions
  /\ run = [p \in {1} |-> IdleRun]
  /\ providerPages = Pages
  /\ runsLeft = MaxRuns
  /\ failsLeft = MaxFails
  /\ prefChangesLeft = MaxPrefChanges
  /\ InitMergeIdle
  /\ storeFailsLeft = 0
  /\ InitGameIdle

SpecSeq == InitSeq /\ [][Next]_vars

\* one request, a user who has watched movie 11, a provider that answers with
\* pages of 2, 5 or 10 movies and does not fail
InitTrend ==
  /\ users = (1 :> StoredUser(NoPreferences))
  /\ watchedMovies = [NoInteractions EXCEPT ![1] = <<11>>]
  /\ movieRatings = NoInteractions
  /\ movieLikes = NoInteractions
  /\ recRows = {}
  /\ nextRecId = 1
  /\ run = [p \in {1} |-> IdleRun]
  /\ providerPages = TrendPages
  /\ runsLeft = 1
  /\ failsLeft = 0
  /\ prefChangesLeft = MaxPrefChanges
  /\ InitMergeIdle
  /\ storeFailsLeft = 0
  /\ InitGameIdle

SpecTrend == InitTrend /\ [][Next]_vars

\* limits a request may carry: "0", a negative one, 1, 2, and none (the
\* default)
DefaultLimit == 20
Limits == {-1, 0, 1, 2, DefaultLimit}

\* one request at a time, a generation or a retrieval
NextRoute ==
  \/ Next
  \/ \E p \in Procs, u \in UserIds, limit \in Limits : Retrieve(p, u, limit)
  \/ \E p \in Procs : RetrieveAgain(p)

\* as InitSeq, with a provider that does not fail
InitRoute ==
  /\ users = (1 :> StoredUser(NoPreferences))
  /\ \/ /\ watchedMovies = NoInteractions
        /\ recRows = {}
        /\ nextRecId = 1
     \/ /\ watchedMovies = [NoInteractions EXCEPT ![1] = <<3>>]
        /\ recRows = PriorRows
        /\ nextRecId = Len(PriorEntries) + 1
  /\ movieRatings = NoInteractions
  /\ movieLikes = NoInteractions
  /\ run = [p \in {1} |-> IdleRun]
  /\ providerPages = Pages
  /\ runsLeft = MaxRuns
  /\ failsLeft = 0
  /\ prefChangesLeft = MaxPrefChanges
  /\ InitMergeIdle
  /\ storeFailsLeft = 0
  /\ InitGameIdle

SpecRoute == InitRoute /\ [][NextRoute]_vars

\* two requests for the same user in flight together: either a user without
\* preferences and a provider answering with either of two pages, so that
\* the two runs may produce different lists, or a user with all preferences
\* and a watched movie and a provider answering with one page
InitRace ==
  /\ \/ /\ users = (1 :> StoredUser(NoPreferences))
        /\ watchedMovies = NoInteractions
        /\ providerPages = {<<1, 2>>, <<2, 3>>}
     \/ /\ users = (1 :> StoredUser(FullPreferences))
        /\ watchedMovies = [NoInteractions EXCEPT ![1] = <<3>>]
        /\ providerPages = {<<1, 2>>}
  /\ movieRatings = NoInteractions
  /\ movieLikes = NoInteractions
  /\ recRows = {}
  /\ nextRecId = 1
  /\ run = [p \in {1, 2} |-> IdleRun]
  /\ runsLeft = 2
  /\ failsLeft = 0
  /\ prefChangesLeft = 0
  /\ InitMergeIdle
  /\ storeFailsLeft = 0
  /\ InitGameIdle

SpecRace == InitRace /\ [][RunStep]_vars

\* one request for a user whose preferences an earlier PUT /api/preferences
\* stored: genre lists of one to three entries, one of them naming a genre
\* twice as updateUserPreferencesSchema admits, or all preferences
GenreLists == {<<1>>, <<2, 1>>, <<2, 2>>, <<1, 2, 3>>}

GenrePreferences ==
  {[NoPreferences EXCEPT !.genres = genres] : genres \in GenreLists}
    \cup {FullPreferences}

InitGenre ==
  /\ users \in {(1 :> StoredUser(preferences)) : preferences \in GenrePreferences}
  /\ watchedMovies = [NoInteractions EXCEPT ![1] = <<3>>]
  /\ movieRatings = NoInteractions
  /\ movieLikes = NoInteractions
  /\ recRows = {}
  /\ nextRecId = 1
  /\ run = [p \in {1} |-> IdleRun]
  /\ providerPages = Pages
  /\ runsLeft = 1
  /\ failsLeft = 0
  /\ prefChangesLeft = 0
  /\ InitMergeIdle
  /\ storeFailsLeft = 0
  /\ InitGameIdle

SpecGenre == InitGenre /\ [][RunStep]_vars

\* one request for a user with none to six interacted movies (watched, rated
\* below and from 7, liked, some movies in two of the lists) and no
\* preferences, the provider answering with either of two pages and failing
\* at most once; or a user with all preferences and a provider answering
\* with one page
WatchedLists == {<<>>, <<3>>, <<3, 1>>}
RatingLists == {<<>>, <<[movieId |-> 2, rating |-> 6], [movieId |-> 4, rating |-> 7]>>}
LikeLists == {<<>>, <<3, 5>>, <<5, 6, 7>>}

InitCollaborative ==
  /\ \/ /\ users = (1 :> StoredUser(NoPreferences))
        /\ watchedMovies \in {[NoInteractions EXCEPT ![1] = w] : w \in WatchedLists}
        /\ movieRatings \in {[NoInteractions EXCEPT ![1] = r] : r \in RatingLists}
        /\ movieLikes \in {[NoInteractions EXCEPT ![1] = l] : l \in LikeLists}
        /\ providerPages = {<<1, 2>>, <<3, 2>>}
        /\ failsLeft = 1
     \/ /\ users = (1 :> StoredUser(FullPreferences))
        /\ watchedMovies = [NoInteractions EXCEPT ![1] = <<3>>]
        /\ movieRatings = NoInteractions
        /\ movieLikes = NoInteractions
        /\ providerPages = {<<1, 2>>}
        /\ failsLeft = 0
  /\ recRows = {}
  /\ nextRecId = 1
  /\ run = [p \in {1} |-> IdleRun]
  /\ runsLeft = 1
  /\ prefChangesLeft = 0
  /\ InitMergeIdle
  /\ storeFailsLeft = 0
  /\ InitGameIdle

SpecCollaborative == InitCollaborative /\ [][RunStep]_vars

\* one request for a user whose stored level is one of the four names, a
\* name the switch does not know, or empty; with or without preferences
LevelNames == {"Beginner", "Explorer", "Cinephile", "Connoisseur", "Novice", ""}

InitLevel ==
  /\ users \in {(1 :> [StoredUser(preferences) EXCEPT !.level = level]) :
                  preferences \in {NoPreferences, FullPreferences},
                  level \in LevelNames}
  /\ watchedMovies = [NoInteractions EXCEPT ![1] = <<3>>]
  /\ movieRatings = NoInteractions
  /\ movieLikes = NoInteractions
  /\ recRows = {}
  /\ nextRecId = 1
  /\ run = [p \in {1} |-> IdleRun]
  /\ providerPages = {<<1, 2>>, <<3, 2>>}
  /\ runsLeft = 1
  /\ failsLeft = 0
  /\ prefChangesLeft = 0
  /\ InitMergeIdle
  /\ storeFailsLeft = 0
  /\ InitGameIdle

SpecLevel == InitLevel /\ [][RunStep]_vars

\* one request for a user with one to three preferred languages, one of them
\* named twice, or with all preferences, and with or without rows from an
\* earlier run; two pages that share a movie, and failing calls
LanguageLists == {<<"en">>, <<"en", "fr">>, <<"en", "fr", "en">>}

LanguageListPreferences ==
  {[NoPreferences EXCEPT !.languages = languages] : languages \in LanguageLists}
    \cup {FullPreferences}

InitLanguage ==
  /\ users \in {(1 :> StoredUser(preferences)) :
                  preferences \in LanguageListPreferences}
  /\ watchedMovies = [NoInteractions EXCEPT ![1] = <<3>>]
  /\ movieRatings = NoInteractions
  /\ movieLikes = NoInteractions
  /\ \/ /\ recRows = {}
        /\ nextRecId = 1
     \/ /\ recRows = PriorRows
        /\ nextRecId = Len(PriorEntries) + 1
  /\ run = [p \in {1} |-> IdleRun]
  /\ providerPages = {<<1, 2>>, <<3, 2>>}
  /\ runsLeft = 1
  /\ failsLeft = MaxFails
  /\ prefChangesLeft = 0
  /\ InitMergeIdle
  /\ storeFailsLeft = 0
  /\ InitGameIdle

SpecLanguage == InitLanguage /\ [][RunStep]_vars

\* one request at a time for a user with rows from an earlier run or without,
\* every page, and one statement of saveRecommendation that may fail
InitSave ==
  /\ users = (1 :> StoredUser(NoPreferences))
  /\ \/ /\ watchedMovies = NoInteractions
        /\ recRows = {}
        /\ nextRecId = 1
     \/ /\ watchedMovies = [NoInteractions EXCEPT ![1] = <<3>>]
        /\ recRows = PriorRows
        /\ nextRecId = Len(PriorEntries) + 1
  /\ movieRatings = NoInteractions
  /\ movieLikes = NoInteractions
  /\ run = [p \in {1} |-> IdleRun]
  /\ providerPages = Pages
  /\ runsLeft = MaxRuns
  /\ failsLeft = 0
  /\ prefChangesLeft = MaxPrefChanges
  /\ InitMergeIdle
  /\ storeFailsLeft = 1
  /\ InitGameIdle

NextSave ==
  \/ Next
  \/ \E p \in Procs : SaveSelectFails(p)
  \/ \E p \in Procs : SaveWriteFails(p)

SpecSave == InitSave /\ [][NextSave]_vars

\* two stored users, each with rows from an earlier run, user 2 with all
\* preferences and a watched movie; one request for either of them; a
\* statement of saveRecommendation may fail
OtherRows ==
  {NewRow(Len(PriorEntries) + i, 2, PriorEntries[i], 0) : i \in 1..Len(PriorEntries)}

InitFrame ==
  /\ users = (1 :> StoredUser(NoPreferences) @@ 2 :> StoredUser(FullPreferences))
  /\ watchedMovies = [NoInteractions EXCEPT ![2] = <<3>>]
  /\ movieRatings = NoInteractions
  /\ movieLikes = NoInteractions
  /\ recRows = PriorRows \cup OtherRows
  /\ nextRecId = 2 * Len(PriorEntries) + 1
  /\ run = [p \in {1} |-> IdleRun]
  /\ providerPages = {<<1, 2>>, <<3, 2>>}
  /\ runsLeft = 1
  /\ failsLeft = 1
  /\ prefChangesLeft = 0
  /\ InitMergeIdle
  /\ storeFailsLeft = 1
  /\ InitGameIdle

NextFrame ==
  \/ RunStep
  \/ \E p \in Procs : SaveSelectFails(p)
  \/ \E p \in Procs : SaveWriteFails(p)

SpecFrame == InitFrame /\ [][NextFrame]_vars

\* the interaction and challenge calls of one user, who starts with the
\* experience an earlier history left: none, or just below a level boundary
StartingXp == {0, 45, 148, 290}

GameMovies == {1, 2}
GameRatings == {6, 8}
GameProgress == {0, 1, 2}

InitGame ==
  /\ users \in {(1 :> [StoredUser(NoPreferences) EXCEPT
                          !.experiencePoints = xp, !.level = LevelForXp(xp)]) :
                  xp \in StartingXp}
  /\ watchedMovies = NoInteractions
  /\ movieRatings = NoInteractions
  /\ movieLikes = NoInteractions
  /\ recRows = {}
  /\ nextRecId = 1
  /\ run = [p \in {1} |-> IdleRun]
  /\ providerPages = {}
  /\ runsLeft = 0
  /\ failsLeft = 0
  /\ prefChangesLeft = 0
  /\ InitMergeIdle
  /\ storeFailsLeft = 0
  /\ userChallenges = {}
  /\ rewarded = [pair \in {1} \X ChallengeIds |-> 0]
  /\ opsLeft = MaxOps

NextGame ==
  \/ \E u \in UserIds, m \in GameMovies, rating \in GameRatings : RateMovie(u, m, rating)
  \/ \E u \in UserIds, m \in GameMovies : LikeMovie(u, m)
  \/ \E u \in UserIds, m \in GameMovies : MarkAsWatched(u, m)
  \/ \E u \in UserIds, m \in GameMovies : UnmarkAsWatched(u, m)
  \/ \E u \in UserIds, c \in ChallengeIds, progress \in GameProgress :
       UpdateChallengeProgress(u, c, progress)
  \/ \E u \in UserIds, c \in ChallengeIds : CompleteChallenge(u, c)

SpecGame == InitGame /\ [][NextGame]_vars

\* getOnboardingRecommendations alone: every combination of genres, languages
\* and country present or absent, pages of 0, 2, 14 and 22 movies, failing
\* calls
OnboardingPreferences ==
  {[genres |-> g, languages |-> l, favoriteMovies |-> <<>>, country |-> c] :
     g \in {<<>>, <<1, 2>>}, l \in {<<>>, <<"en", "fr">>}, c \in {"", "US"}}

OnboardingPages ==
  {<<>>, <<14, 15>>, [i \in 1..14 |-> i], [i \in 1..22 |-> i + 7]}

InitOnboarding ==
  /\ users = (1 :> StoredUser(NoPreferences))
  /\ watchedMovies = NoInteractions
  /\ movieRatings = NoInteractions
  /\ movieLikes = NoInteractions
  /\ recRows = {}
  /\ nextRecId = 1
  /\ run = [p \in {1} |-> IdleRun]
  /\ providerPages = OnboardingPages
  /\ runsLeft = MaxRuns
  /\ failsLeft = MaxFails
  /\ prefChangesLeft = 0
  /\ InitMergeIdle
  /\ storeFailsLeft = 0
  /\ InitGameIdle

NextOnboarding ==
  \/ \E p \in Procs, preferences \in OnboardingPreferences : Onboard(p, preferences)
  \/ \E p \in Procs : PopularQuery(p)
  \/ \E p \in Procs : CombinedQuery(p)
  \/ \E p \in Procs : OnboardingCountryQuery(p)
  \/ \E p \in Procs : GenreLanguageQuery(p)
  \/ \E p \in Procs : FallbackQuery(p)

SpecOnboarding == InitOnboarding /\ [][NextOnboarding]_vars

\* one caller that calls generateRecommendationsForUser and, when it has
\* returned, calls it again
NextTwice ==
  \/ RunStep
  \/ \E p \in Procs : StartAgain(p)

InitTwice ==
  /\ users \in {(1 :> StoredUser(pr)) : pr \in PrefValues \cup {FullPreferences}}
  /\ \/ /\ watchedMovies = NoInteractions
        /\ recRows = {}
        /\ nextRecId = 1
     \/ /\ watchedMovies = [NoInteractions EXCEPT ![1] = <<3>>]
        /\ recRows = PriorRows
        /\ nextRecId = Len(PriorEntries) + 1
  /\ movieRatings = NoInteractions
  /\ movieLikes = NoInteractions
  /\ run = [p \in {1} |-> IdleRun]
  /\ providerPages = Pages
  /\ runsLeft = 1
  /\ failsLeft = MaxFails
  /\ prefChangesLeft = 0
  /\ InitMergeIdle
  /\ storeFailsLeft = 0
  /\ InitGameIdle

SpecTwice == InitTwice /\ [][NextTwice]_vars

\* the merger alone, on every candidate list up to MaxLen entries
MergeShapes ==
  {<<6, 0, 0>>, <<12, 0, 0>>, <<0, 11, 0>>, <<0, 0, 10>>, <<0, 0, 15>>}

MergeEntries ==
  {[movieId |-> m, score |-> sc, genreMatch |-> sh[1], languageMatch |-> sh[2],
    collaborativeScore |-> sh[3]] :
     m \in MergeMovieIds, sc \in {0, 9}, sh \in MergeShapes}

InitMerge ==
  /\ users = (1 :> StoredUser(NoPreferences))
  /\ watchedMovies = NoInteractions
  /\ movieRatings = NoInteractions
  /\ movieLikes = NoInteractions
  /\ recRows = {}
  /\ nextRecId = 1
  /\ run = [p \in {1} |-> IdleRun]
  /\ providerPages = {}
  /\ runsLeft = 0
  /\ failsLeft = 0
  /\ prefChangesLeft = 0
  /\ mInput \in SeqsUpTo(MergeEntries, MaxLen)
  /\ mOutput = <<>>
  /\ mDone = FALSE
  /\ storeFailsLeft = 0
  /\ InitGameIdle

NextMerge == Merge

SpecMerge == InitMerge /\ [][NextMerge]_vars

\* ------------------------------------------------------------------------
\* Properties
\* ------------------------------------------------------------------------
SetMax(S) == CHOOSE x \in S : \A y \in S : x >= y

\* the input entries of the merger that carry movie id m
InputsOf(m) == {i \in 1..Len(mInput) : mInput[i].movieId = m}

\* C4: for every input list the merger returns no two entries with the same
\* movieId, and returns an entry for every movieId of the input.
C4_MergeUnique ==
  mDone =>
    /\ \A i, j \in 1..Len(mOutput) :
         mOutput[i].movieId = mOutput[j].movieId => i = j
    /\ {mOutput[i].movieId : i \in 1..Len(mOutput)}
         = {mInput[i].movieId : i \in 1..Len(mInput)}

C4_Witness ==
  /\ mDone
  /\ Len(mInput) = MaxLen
  /\ \E i, j \in 1..Len(mInput) : i # j /\ mInput[i].movieId = mInput[j].movieId
  /\ Len(mOutput) >= 2

\* C5: each of genreMatch, languageMatch and collaborativeScore of a merged
\* entry is the maximum of that field over the input entries with its movieId.
C5_MergeMax ==
  mDone =>
    \A k \in 1..Len(mOutput) :
      LET ins == InputsOf(mOutput[k].movieId)
      IN /\ ins # {}
         /\ mOutput[k].genreMatch = SetMax({mInput[i].genreMatch : i \in ins})
         /\ mOutput[k].languageMatch = SetMax({mInput[i].languageMatch : i \in ins})
         /\ mOutput[k].collaborativeScore
              = SetMax({mInput[i].collaborativeScore : i \in ins})

C5_Witness ==
  /\ mDone
  /\ \E i, j \in 1..Len(mInput) :
       /\ i < j
       /\ mInput[i].movieId = mInput[j].movieId
       /\ mInput[i].collaborativeScore = 15
       /\ mInput[j].collaborativeScore = 10
       /\ \E k \in 1..Len(mOutput) :
            /\ mOutput[k].movieId = mInput[i].movieId
            /\ mOutput[k].collaborativeScore = 15

\* C6: the score of a merged entry is genreMatch + languageMatch +
\* collaborativeScore of its merged fields, whatever score the inputs carried.
C6_MergeScore ==
  mDone =>
    \A k \in 1..Len(mOutput) :
      mOutput[k].score = mOutput[k].genreMatch + mOutput[k].languageMatch
                           + mOutput[k].collaborativeScore

\* genreMatch 0.6 from the genre source and languageMatch 1.1 from the
\* language source, both carrying a score of 0.9, give a score of 1.7
C6_Witness ==
  /\ mDone
  /\ \E i, j \in 1..Len(mInput) :
       /\ mInput[i].movieId = mInput[j].movieId
       /\ mInput[i].genreMatch = 6 /\ mInput[i].score = 9
       /\ mInput[j].languageMatch = 11 /\ mInput[j].score = 9
  /\ \E k \in 1..Len(mOutput) :
       /\ mOutput[k].genreMatch = 6
       /\ mOutput[k].languageMatch = 11
       /\ mOutput[k].collaborativeScore = 0
       /\ mOutput[k].score = 17

\* ------------------------------------------------------------------------
\* Properties of generateRecommendationsForUser
\* ------------------------------------------------------------------------
\* the merged entry of run p for movie m
MergedOf(p, m) == run[p].merged[FirstIndex(run[p].merged, m)]

\* the movie id and the four numbers of a merged entry
ValuesOfEntry(rec) ==
  <<rec.movieId, rec.score, rec.genreMatch, rec.languageMatch,
    rec.collaborativeScore>>

\* the stored rows of u are exactly the entries of the list recs, one row each
RowsAre(u, recs) ==
  /\ Cardinality(RowsOf(u)) = Len(recs)
  /\ {ValuesOfRow(row) : row \in RowsOf(u)}
       = {ValuesOfEntry(recs[i]) : i \in 1..Len(recs)}
  /\ \A row \in RowsOf(u) : row.recommended

\* C1: in every reachable state, also while runs for the same user interleave
\* at single store reads and writes, there is at most one stored row per
\* (user, movie) pair.
C1_OneRowPerUserMovie ==
  \A r1, r2 \in recRows :
    (r1.userId = r2.userId /\ r1.movieId = r2.movieId) => r1 = r2

\* C2: after a run for u that no other run for u overlapped, the stored rows
\* of u are exactly the merged entries of the run, the returned ids are the
\* merged movie ids, and no row from before the run is left unless the run
\* produced its movie again.
C2_RunReplacesRows ==
  \A p \in DOMAIN run :
    run[p].pc = "done" =>
      /\ RowsAre(run[p].userId, run[p].merged)
      /\ Len(run[p].result) = Len(run[p].merged)
      /\ Range(run[p].result) = Range(MapMovieIds(run[p].merged))
      /\ \A row \in RowsOf(run[p].userId) : row.id >= run[p].serialBefore
      /\ \A old \in run[p].rowsBefore :
           (\E row \in RowsOf(run[p].userId) : row.movieId = old)
             => old \in Range(run[p].result)

C2_Witness ==
  \E p \in DOMAIN run :
    /\ run[p].pc = "done"
    /\ Len(run[p].merged) >= 2
    /\ \E old \in run[p].rowsBefore : old \notin Range(run[p].result)
    /\ \E old \in run[p].rowsBefore : old \in Range(run[p].result)

\* C3: once a run for u that read u's preferences after their last change has
\* completed, every stored row of u was computed from those preferences,
\* whatever other runs for u were in progress.
C3_NoStaleRows ==
  \A p \in DOMAIN run :
    (/\ run[p].pc = "done"
     /\ run[p].userId \in DOMAIN users
     /\ run[p].prefRev > 0
     /\ run[p].prefRev = users[run[p].userId].prefRev)
    => \A row \in RowsOf(run[p].userId) : row.prefRev = run[p].prefRev

\* C7: the returned ids are in non-increasing order of merged score.
C7_ResultSorted ==
  \A p \in DOMAIN run :
    run[p].pc = "done" =>
      /\ Len(run[p].result) = Len(run[p].merged)
      /\ \A i \in 1..Len(run[p].result) :
           FirstIndex(run[p].merged, run[p].result[i]) # 0
      /\ \A i, j \in 1..Len(run[p].result) :
           i < j => MergedOf(p, run[p].result[i]).score
                      >= MergedOf(p, run[p].result[j]).score

\* the sort moved an entry in front of one that the merger put before it
C7_Witness ==
  \E p \in DOMAIN run :
    /\ run[p].pc = "done"
    /\ Len(run[p].result) >= 3
    /\ run[p].result # MapMovieIds(run[p].merged)
    /\ \E i, j \in 1..Len(run[p].result) :
         MergedOf(p, run[p].result[i]).score # MergedOf(p, run[p].result[j]).score

\* C8: merged entries of equal score come out in the order in which their
\* movie ids first occur in the concatenated generator output.
C8_TiesKeepInputOrder ==
  \A p \in DOMAIN run :
    run[p].pc = "done" =>
      \A i, j \in 1..Len(run[p].result) :
        (/\ i < j
         /\ MergedOf(p, run[p].result[i]).score = MergedOf(p, run[p].result[j]).score)
        => /\ FirstIndex(run[p].recommendations, run[p].result[i]) > 0
           /\ FirstIndex(run[p].recommendations, run[p].result[i])
                < FirstIndex(run[p].recommendations, run[p].result[j])

\* two tied entries stand behind one that the sort moved in front of them
C8_Witness ==
  \E p \in DOMAIN run :
    /\ run[p].pc = "done"
    /\ run[p].result # MapMovieIds(run[p].merged)
    /\ \E i, j \in 1..Len(run[p].result) :
         /\ i < j
         /\ MergedOf(p, run[p].result[i]).score = MergedOf(p, run[p].result[j]).score
         /\ \E k \in 1..Len(run[p].result) :
              MergedOf(p, run[p].result[k]).score > MergedOf(p, run[p].result[i]).score

\* C9: for a user id with no stored user the run fails with "User not found"
\* and has neither cleared nor written a row nor issued a provider query.
C9_UnknownUserFails ==
  \A p \in DOMAIN run :
    (run[p].userId \notin DOMAIN users /\ run[p].pc \notin {"idle", "getUser"})
    => /\ run[p].pc = "failed"
       /\ run[p].error = "User not found"
       /\ ~run[p].cleared
       /\ run[p].written = 0
       /\ run[p].queries = <<>>

\* the run for the unknown user failed while rows of a stored user existed
C9_Witness ==
  \E p \in DOMAIN run :
    /\ run[p].pc = "failed"
    /\ run[p].userId \notin DOMAIN users
    /\ recRows # {}

\* C10: for a stored user, whatever provider calls fail, the run completes
\* without raising, and its result and stored rows are those of a run in
\* which every failed call answered an empty page.
C10_FailureIsEmptyPage ==
  \A p \in DOMAIN run :
    /\ run[p].pc = "failed" => run[p].userId \notin DOMAIN users
    /\ (run[p].pc = "done" /\ run[p].failedCalls > 0) =>
         LET asIf == SortByScoreDesc(mergeAndScoreRecommendations(run[p].asIfEmpty))
         IN /\ run[p].recommendations = run[p].asIfEmpty
            /\ run[p].result = MapMovieIds(asIf)
            /\ RowsAre(run[p].userId, asIf)

\* the call for the second language failed after the first had given entries
C10_Witness ==
  \E p \in DOMAIN run :
    /\ run[p].pc = "done"
    /\ run[p].failedCalls > 0
    /\ Len(run[p].queries) >= 2
    /\ \E k \in 1..Len(run[p].queries) :
         run[p].queries[k].with_original_language = "fr"
    /\ \E i \in 1..Len(run[p].recommendations) :
         run[p].recommendations[i].languageMatch > 0
    /\ Len(run[p].result) > 0

CandidatesOf(recommendations) ==
  Cardinality({i \in 1..Len(recommendations) :
                 recommendations[i].collaborativeScore # TrendingWeight})

TrendingIssued(rn) ==
  \E k \in 1..Len(rn.queries) : rn.queries[k] = TrendingQueryOf

\* C12: a run that has passed the trending step has issued the trending query
\* if and only if sources 1-5 had produced fewer than 20 candidate entries.
C12_TrendingIffBelow20 ==
  \A p \in DOMAIN run :
    run[p].pc \in {"saveSelect", "saveWrite", "done"} =>
      (TrendingIssued(run[p])
         <=> CandidatesOf(run[p].recommendations) < TrendingThreshold)

\* exactly 20 candidates from sources 1-5: the trending query was not issued
C12_Witness ==
  \E p \in DOMAIN run :
    /\ run[p].pc = "done"
    /\ CandidatesOf(run[p].recommendations) = TrendingThreshold
    /\ ~TrendingIssued(run[p])
    /\ Len(run[p].result) = 10

\* C13: an answered retrieval has called generateRecommendationsForUser if and
\* only if the user had no recommended row at the first fetch; it has called
\* it at most once, and after the call it has fetched exactly once more and
\* answered that fetch, empty or not.
C13_GenerateIffNoRows ==
  \A p \in DOMAIN run :
    (run[p].route = "retrieve" /\ run[p].pc = "answered" /\ run[p].status = 200)
    => /\ run[p].generations = 1 <=> run[p].rowsAtFirstFetch = 0
       /\ run[p].generations <= 1
       /\ run[p].fetches = 1 + run[p].generations
       /\ \E fetched \in getUserRecommendations(run[p].userId, run[p].limit) :
            fetched.ok /\ fetched.rows = run[p].response

\* the rows of an answer are distinct recommended rows of the user, in
\* non-increasing order of score
RowsInOrder(rn) ==
  LET rows == rn.response
  IN /\ \A i \in 1..Len(rows) :
          /\ rows[i] \in RecommendedRowsOf(rn.userId)
          /\ rows[i].userId = rn.userId
          /\ rows[i].recommended
     /\ \A i, j \in 1..Len(rows) : rows[i] = rows[j] => i = j
     /\ \A i, j \in 1..Len(rows) : i < j => rows[i].score >= rows[j].score

\* they are at most limit rows, limit rows when the user has that many, and no
\* row left out has a higher score than a row answered
TopRows(rn) ==
  LET rows == rn.response
      stored == RecommendedRowsOf(rn.userId)
  IN /\ Len(rows) <= rn.limit
     /\ Len(rows) = rn.limit \/ Len(rows) = Cardinality(stored)
     /\ \A out \in stored \ Range(rows) :
          \A i \in 1..Len(rows) : out.score <= rows[i].score

Answered(rn) == rn.route = "retrieve" /\ rn.pc = "answered" /\ rn.status = 200

\* C14 as stated: for every limit N, the rows a retrieval for u answers with
\* are at most N, are recommended rows of u in non-increasing order of score,
\* and are the N highest-scored.
C14_TopRowsAnyLimit ==
  \A p \in DOMAIN run :
    Answered(run[p]) => RowsInOrder(run[p]) /\ TopRows(run[p])

\* C14 amended: for every limit N the rows answered are distinct recommended
\* rows of u in non-increasing order of score; when N is 1 or more they are at
\* most N and the N highest-scored; when N is 0 or negative they are none or
\* all of the recommended rows of u.
C14_TopRowsInOrder ==
  \A p \in DOMAIN run :
    Answered(run[p]) =>
      /\ RowsInOrder(run[p])
      /\ run[p].limit >= 1 => TopRows(run[p])
      /\ run[p].limit < 1 =>
           \/ run[p].response = <<>>
           \/ Len(run[p].response) = Cardinality(RecommendedRowsOf(run[p].userId))

\* three rows stored, limit 2: the two rows of the higher score answered in
\* the order that is not the order of their ids, the third row left out
C14_Witness ==
  \E p \in DOMAIN run :
    /\ Answered(run[p])
    /\ run[p].limit = 2
    /\ Len(run[p].response) = 2
    /\ run[p].response[1].id > run[p].response[2].id
    /\ \E out \in RecommendedRowsOf(run[p].userId) :
         /\ out \notin Range(run[p].response)
         /\ out.score < run[p].response[2].score


\* ------------------------------------------------------------------------
\* getOnboardingRecommendations
\* ------------------------------------------------------------------------
Returned(rn) == rn.route = "onboarding" /\ rn.pc = "returned"

Supplied(preferences) ==
  Len(preferences.genres) > 0 \/ Len(preferences.languages) > 0
  \/ preferences.country # ""

\* the first n entries of seq, all of it when it is shorter
FirstIds(seq, n) ==
  [i \in 1..(IF Len(seq) < n THEN Len(seq) ELSE n) |-> seq[i]]

NoDuplicates(seq) == \A i, j \in DOMAIN seq : seq[i] = seq[j] => i = j

\* what the pass of that name appended to allResults, <<>> if it did not run
RECURSIVE PushedBy(_, _)
PushedBy(passes, pass) ==
  IF passes = <<>> THEN <<>>
  ELSE (IF Head(passes).pass = pass THEN Head(passes).movies ELSE <<>>)
       \o PushedBy(Tail(passes), pass)

Ran(rn, pass) == \E i \in DOMAIN rn.passes : rn.passes[i].pass = pass

Enrichment(rn) ==
  PushedBy(rn.passes, "combined") \o PushedBy(rn.passes, "country")
    \o PushedBy(rn.passes, "genreLanguage")

\* C15: a call with no genres, no languages and no country issues the
\* popular-movies query and nothing else, and returns the first 20 ids of
\* the page it got, in page order (nothing when the call failed).
C15_NoPreferencesPopular ==
  \A p \in DOMAIN run :
    Returned(run[p]) /\ ~Supplied(run[p].user) =>
      /\ run[p].queries = <<PopularQueryOf>>
      /\ LET answer == run[p].answers[1]
         IN run[p].result =
              IF answer.ok
              THEN FirstIds(answer.results, OnboardingCap)
              ELSE <<>>

C15_Witness ==
  \E p \in DOMAIN run :
    /\ Returned(run[p]) /\ ~Supplied(run[p].user)
    /\ run[p].answers[1].ok
    /\ Len(run[p].answers[1].results) > OnboardingCap
    /\ Len(run[p].result) = OnboardingCap

C17_PassesInOrder ==
  \A p \in DOMAIN run :
    Returned(run[p]) /\ Supplied(run[p].user) =>
      LET rn == run[p]
          preferences == rn.user
          combined == PushedBy(rn.passes, "combined")
          country == PushedBy(rn.passes, "country")
          order == [pass \in {"combined", "country", "genreLanguage", "popular"} |->
                      CASE pass = "combined" -> 1
                        [] pass = "country" -> 2
                        [] pass = "genreLanguage" -> 3
                        [] OTHER -> 4]
      IN /\ Ran(rn, "combined") <=>
              (Len(preferences.genres) > 0 /\ Len(preferences.languages) > 0
               /\ preferences.country # "")
         /\ Ran(rn, "country") <=>
              (preferences.country # "" /\ Len(combined) < OnboardingEnough)
         /\ Ran(rn, "genreLanguage") <=>
              ((Len(preferences.genres) > 0 \/ Len(preferences.languages) > 0)
               /\ Len(combined) + Len(country) < OnboardingEnough)
         /\ Len(rn.queries) = Len(rn.passes)
         /\ \A i \in DOMAIN rn.passes :
              /\ rn.passes[i].pass = "combined" =>
                   rn.queries[i] = CombinedQueryOf(preferences)
              /\ rn.passes[i].pass = "country" =>
                   rn.queries[i] = OnboardingCountryQueryOf(preferences)
              /\ rn.passes[i].pass = "genreLanguage" =>
                   /\ rn.queries[i].with_genres = preferences.genres
                   /\ rn.queries[i].region = ""
                   /\ rn.queries[i].with_original_language =
                        IF Len(preferences.languages) > 0
                        THEN preferences.languages[1] ELSE ""
              /\ \A j \in DOMAIN rn.passes :
                   i < j => order[rn.passes[i].pass] < order[rn.passes[j].pass]
         /\ Enrichment(rn) # <<>> =>
              rn.result = FirstIds(Enrichment(rn), OnboardingCap)

C17_Witness ==
  \E p \in DOMAIN run :
    /\ Returned(run[p])
    /\ Len(PushedBy(run[p].passes, "combined")) = 2
    /\ Ran(run[p], "country")
    /\ Len(PushedBy(run[p].passes, "country")) = 13
    /\ ~Ran(run[p], "genreLanguage")
    /\ Len(run[p].result) = 15

\* C18: with a preference supplied, the popular query is issued iff no
\* enrichment pass contributed a movie, and then the function returns the
\* first 20 ids of the popular page (nothing when that call failed).
C18_FallbackIffNothing ==
  \A p \in DOMAIN run :
    Returned(run[p]) /\ Supplied(run[p].user) =>
      LET rn == run[p]
          last == Len(rn.queries)
      IN /\ Ran(rn, "popular") <=> Enrichment(rn) = <<>>
         /\ Ran(rn, "popular") =>
              /\ rn.passes[last].pass = "popular"
              /\ rn.queries[last] = PopularQueryOf
              /\ rn.result =
                   IF rn.answers[last].ok
                   THEN FirstIds(rn.answers[last].results, OnboardingCap)
                   ELSE <<>>

C18_Witness ==
  \E p \in DOMAIN run :
    /\ Returned(run[p]) /\ Supplied(run[p].user)
    /\ Len(run[p].queries) = 4
    /\ \E i \in 1..3 : ~run[p].answers[i].ok
    /\ \E i \in 1..3 : run[p].answers[i].ok
    /\ run[p].answers[4].ok
    /\ Len(run[p].result) = OnboardingCap

\* ------------------------------------------------------------------------
\* overlapping runs
\* ------------------------------------------------------------------------
HasRow(u, movieId) == \E row \in RowsOf(u) : row.movieId = movieId

BothDone == \A p \in DOMAIN run : run[p].pc = "done" /\ run[p].userId = 1

GenreAnswered(rn) ==
  /\ Len(rn.user.genres) > 0
  /\ Len(rn.queries) > 0
  /\ rn.queries[Len(rn.queries)] = GenreQueryOf(rn.user.genres)
  /\ rn.answers[Len(rn.queries)].ok

\* the entries the genre generator emitted: the tail of recommendations
GenreEmitted(rn) ==
  LET results == rn.answers[Len(rn.queries)].results
  IN [i \in 1..Len(results) |->
        rn.recommendations[Len(rn.recommendations) - Len(results) + i]]

\* C20: for a user with a non-empty preferred-genre list, the genreMatch
\* emitted for a movie of the genre query is 1.2 times the share of the
\* user's preferred genres that the movie carries, hence between 0 and 1.2.
C20_GenreMatchShare ==
  \A p \in DOMAIN run :
    GenreAnswered(run[p]) =>
      LET preferred == Range(run[p].user.genres)
          emitted == GenreEmitted(run[p])
      IN \A i \in 1..Len(emitted) :
           /\ emitted[i].genreMatch * Cardinality(preferred) =
                Cardinality(preferred \cap Range(GenreIdsOf(emitted[i].movieId)))
                  * GenreWeight
           /\ emitted[i].genreMatch >= 0
           /\ emitted[i].genreMatch <= GenreWeight

\* ------------------------------------------------------------------------
\* getCollaborativeRecommendations
\* ------------------------------------------------------------------------
\* the movies u has watched, rated 7 or higher, or liked, as stored
Interacted(u) ==
  Range(watchedMovies[u])
    \cup {movieRatings[u][i].movieId : i \in
            {j \in 1..Len(movieRatings[u]) : movieRatings[u][j].rating >= 7}}
    \cup Range(movieLikes[u])

\* the place of an interacted movie in the order watched, rated, liked
Rank(u, m) ==
  LET w == watchedMovies[u]
      r == movieRatings[u]
      l == movieLikes[u]
  IN IF m \in Range(w)
     THEN CHOOSE i \in 1..Len(w) : w[i] = m /\ \A j \in 1..(i - 1) : w[j] # m
     ELSE IF \E i \in 1..Len(r) : r[i].movieId = m /\ r[i].rating >= 7
     THEN Len(w) + (CHOOSE i \in 1..Len(r) :
                      /\ r[i].movieId = m /\ r[i].rating >= 7
                      /\ \A j \in 1..(i - 1) : ~(r[j].movieId = m /\ r[j].rating >= 7))
     ELSE Len(w) + Len(r)
            + (CHOOSE i \in 1..Len(l) : l[i] = m /\ \A j \in 1..(i - 1) : l[j] # m)

SimilarQueries(rn) ==
  SelectSeq(rn.queries, LAMBDA query : query.endpoint = "movie/similar")

CollaborativeEmitted(rn) ==
  SelectSeq(rn.recommendations,
            LAMBDA rec : rec.collaborativeScore = CollaborativeWeight)

\* the collaborative generator of the run has returned
CollaborativeReturned(rn) ==
  rn.route = "" /\ rn.pc \in {"trending", "saveSelect", "saveWrite", "done"}

\* C21: the collaborative generator issues a similar-movies query for the
\* first min(3, n) distinct ids of the interaction set, in the order watched,
\* rated 7 or higher, liked, and for no other; with no interaction it issues
\* no query and emits nothing.
C21_SamplesFirstThree ==
  \A p \in DOMAIN run :
    CollaborativeReturned(run[p]) =>
      LET similar == SimilarQueries(run[p])
          set == Interacted(run[p].userId)
          n == Cardinality(set)
      IN /\ Len(similar) = (IF n < 3 THEN n ELSE 3)
         /\ \A i \in 1..Len(similar) :
              /\ similar[i].movie \in set
              /\ Cardinality({m \in set : Rank(run[p].userId, m)
                                            < Rank(run[p].userId, similar[i].movie)})
                   = i - 1
         /\ n = 0 => CollaborativeEmitted(run[p]) = <<>>

\* five interacted movies, one of them in two lists, three queries
C21_Witness ==
  \E p \in DOMAIN run :
    /\ CollaborativeReturned(run[p])
    /\ Cardinality(Interacted(run[p].userId)) = 5
    /\ Len(watchedMovies[run[p].userId]) + Len(movieLikes[run[p].userId]) = 5
    /\ Len(SimilarQueries(run[p])) = 3
    /\ CollaborativeEmitted(run[p]) # <<>>

\* C22: no entry the collaborative generator emits, and so no merged entry
\* with collaborativeScore 1.5, is a movie the user has watched, rated 7 or
\* higher, or liked.
C22_NoInteractedMovie ==
  \A p \in DOMAIN run :
    run[p].route = "" /\ run[p].pc # "idle" =>
      LET set == Interacted(run[p].userId)
      IN /\ \A i \in 1..Len(run[p].allRecommendations) :
              run[p].allRecommendations[i].movieId \notin set
         /\ \A i \in 1..Len(run[p].recommendations) :
              run[p].recommendations[i].collaborativeScore = CollaborativeWeight
                => run[p].recommendations[i].movieId \notin set
         /\ \A i \in 1..Len(run[p].merged) :
              run[p].merged[i].collaborativeScore = CollaborativeWeight
                => run[p].merged[i].movieId \notin set

\* a similar-movies page held an interacted movie and another one, which was
\* emitted and merged with collaborativeScore 1.5
C22_Witness ==
  \E p \in DOMAIN run :
    /\ run[p].pc = "done"
    /\ \E k \in 1..Len(run[p].queries) :
         /\ run[p].queries[k].endpoint = "movie/similar"
         /\ run[p].answers[k].ok
         /\ \E i \in 1..Len(run[p].answers[k].results) :
              run[p].answers[k].results[i] \in Interacted(run[p].userId)
    /\ \E i \in 1..Len(run[p].merged) :
         run[p].merged[i].collaborativeScore = CollaborativeWeight

\* ------------------------------------------------------------------------
\* getLevelBasedRecommendations
\* ------------------------------------------------------------------------
\* the level generator of the run has just returned with the provider's page
LevelAnswered(rn) ==
  /\ rn.route = "" /\ rn.pc = "getWatchedMovies"
  /\ rn.answers[Len(rn.queries)].ok

LevelQueryIssued(rn) == rn.queries[Len(rn.queries)]

\* the entries the level generator emitted: the tail of recommendations
LevelEmitted(rn) ==
  LET results == rn.answers[Len(rn.queries)].results
  IN [i \in 1..Len(results) |->
        rn.recommendations[Len(rn.recommendations) - Len(results) + i]]

NamedLevels == {"Explorer", "Cinephile", "Connoisseur"}

BeginnerQuery ==
  [endpoint |-> "discover/movie", sort_by |-> "popularity.desc", region |-> "",
   with_genres |-> <<>>, with_original_language |-> "", vote_average_gte |-> 75,
   vote_count_gte |-> 1000, with_keywords |-> "", movie |-> 0]

DefaultLevelQuery ==
  [endpoint |-> "discover/movie", sort_by |-> "vote_average.desc", region |-> "",
   with_genres |-> <<>>, with_original_language |-> "", vote_average_gte |-> 0,
   vote_count_gte |-> 1000, with_keywords |-> "", movie |-> 0]

FlatLevelEntries(rn) ==
  \A i \in 1..Len(LevelEmitted(rn)) :
    /\ LevelEmitted(rn)[i].movieId = rn.answers[Len(rn.queries)].results[i]
    /\ LevelEmitted(rn)[i].collaborativeScore = LevelWeight
    /\ LevelEmitted(rn)[i].genreMatch = 0
    /\ LevelEmitted(rn)[i].languageMatch = 0

\* C23 as stated: for every level name other than Explorer, Cinephile and
\* Connoisseur, an unrecognized one included, the level generator issues the
\* query it issues for Beginner, and every entry it emits has
\* collaborativeScore 1.0 with genreMatch and languageMatch 0.
C23_OtherLevelsAsBeginner ==
  \A p \in DOMAIN run :
    LevelAnswered(run[p]) =>
      /\ run[p].userLevel \notin NamedLevels =>
           LevelQueryIssued(run[p]) = BeginnerQuery
      /\ FlatLevelEntries(run[p])

\* C23 amended: for Beginner the generator issues the Beginner query; for a
\* name that is none of the four it issues the query sorted by vote average
\* with at least 1000 votes, which is not the Beginner query; for every level
\* every entry it emits has collaborativeScore 1.0 with genreMatch and
\* languageMatch 0.
C23_UnknownLevelDefaultQuery ==
  \A p \in DOMAIN run :
    LevelAnswered(run[p]) =>
      /\ run[p].userLevel = "Beginner" =>
           LevelQueryIssued(run[p]) = BeginnerQuery
      /\ run[p].userLevel \notin NamedLevels \cup {"Beginner"} =>
           /\ LevelQueryIssued(run[p]) = DefaultLevelQuery
           /\ LevelQueryIssued(run[p]) # BeginnerQuery
      /\ FlatLevelEntries(run[p])

C23_Witness ==
  \E p \in DOMAIN run :
    /\ LevelAnswered(run[p])
    /\ run[p].userLevel = "Novice"
    /\ Len(LevelEmitted(run[p])) = 2

\* ------------------------------------------------------------------------
\* getLanguageBasedRecommendations
\* ------------------------------------------------------------------------
\* the language generator of the run has just returned
LanguageReturned(rn) ==
  rn.route = "" /\ rn.pc = "level" /\ Len(rn.user.languages) > 0

\* the entries with a language match among the candidates of the run
LanguageEmitted(rn) ==
  SelectSeq(rn.recommendations, LAMBDA rec : rec.languageMatch # 0)

\* the movies of the answered pages among answers[from..to], page after page
RECURSIVE MoviesAnswered(_, _, _)
MoviesAnswered(answers, from, to) ==
  IF from > to THEN <<>>
  ELSE (IF answers[from].ok THEN answers[from].results ELSE <<>>)
       \o MoviesAnswered(answers, from + 1, to)

\* C24: the language generator issues one query per preferred language, in
\* preference order, and emits one entry with languageMatch 1.1 and the other
\* fields 0 for every movie of every answered page, page after page, a movie
\* as often as it was answered; a failed query takes away its own entries
\* only.
C24_OneQueryPerLanguage ==
  \A p \in DOMAIN run :
    LanguageReturned(run[p]) =>
      LET rn == run[p]
          languages == rn.user.languages
          first == Len(rn.queries) - Len(languages)
          movies == MoviesAnswered(rn.answers, first + 1, Len(rn.queries))
          emitted == LanguageEmitted(rn)
      IN /\ first >= 0
         /\ \A i \in 1..Len(languages) :
              /\ rn.queries[first + i].with_original_language = languages[i]
              /\ rn.queries[first + i].sort_by = "vote_average.desc"
              /\ rn.queries[first + i].vote_count_gte = 100
         /\ \A k \in 1..first : rn.queries[k].sort_by # "vote_average.desc"
         /\ Len(emitted) = Len(movies)
         /\ \A i \in 1..Len(emitted) :
              /\ emitted[i].movieId = movies[i]
              /\ emitted[i].languageMatch = LanguageWeight
              /\ emitted[i].genreMatch = 0
              /\ emitted[i].collaborativeScore = 0
              /\ emitted[i].score = 0

\* three languages, the query for the second failed, the two others were
\* answered with pages that share a movie, which is emitted twice
C24_Witness ==
  \E p \in DOMAIN run :
    /\ LanguageReturned(run[p])
    /\ Len(run[p].queries) = 3
    /\ run[p].answers[1].ok /\ ~run[p].answers[2].ok /\ run[p].answers[3].ok
    /\ run[p].answers[1].results # run[p].answers[3].results
    /\ Len(LanguageEmitted(run[p])) = 4
    /\ \E i, j \in 1..4 :
         i # j /\ LanguageEmitted(run[p])[i].movieId = LanguageEmitted(run[p])[j].movieId

\* ------------------------------------------------------------------------
\* a save that fails
\* ------------------------------------------------------------------------
SaveFailed(rn) ==
  rn.route = "" /\ rn.pc = "failed" /\ rn.error \in {"select", "write"}

\* C25: when the save of the k-th merged entry fails, the run fails, the
\* rows of its first k-1 entries are the stored rows of the user, no later
\* entry has a row, and no row from before the run is there.
C25_NoRollback ==
  \A p \in DOMAIN run :
    SaveFailed(run[p]) =>
      LET rn == run[p]
          k == rn.saveIdx
      IN /\ k \in 1..Len(rn.sorted)
         /\ rn.written = k - 1
         /\ rn.result = <<>>
         /\ RowsAre(rn.userId, SubSeq(rn.sorted, 1, k - 1))
         /\ \A i \in k..Len(rn.sorted) :
              ~\E row \in RowsOf(rn.userId) : row.movieId = rn.sorted[i].movieId
         /\ \A row \in RowsOf(rn.userId) : row.id >= rn.serialBefore

\* the save of the second of three entries failed; the user had rows before
\* the run, and a movie of those has no row now
C25_Witness ==
  \E p \in DOMAIN run :
    /\ SaveFailed(run[p])
    /\ run[p].saveIdx = 2
    /\ Len(run[p].sorted) = 3
    /\ Cardinality(RowsOf(run[p].userId)) = 1
    /\ \E old \in run[p].rowsBefore :
         ~\E row \in RowsOf(run[p].userId) : row.movieId = old

\* ------------------------------------------------------------------------
\* what a run leaves alone
\* ------------------------------------------------------------------------
\* no request is, or becomes, a run for u in this step
NoRunFor(u) == \A p \in DOMAIN run : run[p].userId # u /\ run'[p].userId # u

RunStepFrame ==
  /\ users' = users
  /\ watchedMovies' = watchedMovies
  /\ movieRatings' = movieRatings
  /\ movieLikes' = movieLikes
  /\ \A u \in UserIds :
       NoRunFor(u) =>
         {row \in recRows' : row.userId = u} = {row \in recRows : row.userId = u}

\* C26: a step of a run for u, in a run that succeeds or fails, changes no
\* recommendation row of another user and no preferences, level, experience
\* points, watched, rating or like record of any user.
C26_RunChangesOwnRowsOnly == [][RunStepFrame]_vars

\* a run has failed or returned after deleting and writing rows of its user,
\* and the other user has rows
C26_Witness ==
  \E p \in DOMAIN run :
    /\ run[p].pc \in {"done", "failed"}
    /\ run[p].cleared /\ run[p].written > 0
    /\ run[p].rowsBefore # {}
    /\ \E row \in recRows : row.userId # run[p].userId

\* ------------------------------------------------------------------------
\* the order of the steps of a run
\* ------------------------------------------------------------------------
\* the generator a logged query belongs to: 1 country, 2 genre, 3 language,
\* 4 level, 5 collaborative, 6 trending
KindOf(query) ==
  CASE query.endpoint = "trending/movie/week" -> 6
    [] query.endpoint = "movie/similar" -> 5
    [] query.endpoint = "discover/movie" /\ query.with_genres # <<>> -> 2
    [] query.endpoint = "discover/movie" /\ query.with_genres = <<>>
         /\ query.region # "" -> 1
    [] query.endpoint = "discover/movie" /\ query.with_genres = <<>>
         /\ query.region = "" /\ query.with_original_language # "" -> 3
    [] OTHER -> 4

Kinds(rn) == {KindOf(rn.queries[k]) : k \in 1..Len(rn.queries)}

Generating(rn) ==
  rn.pc \in {"country", "genre", "language", "level", "getWatchedMovies",
             "getUserRatings", "getUserLikes", "similar", "trending"}

Saving(rn) == rn.pc \in {"saveSelect", "saveWrite", "done"}

\* in every state of a run that no other run overlaps
RunOrder(rn) ==
  /\ Len(rn.queries) > 0 => rn.cleared
  /\ \A i, j \in 1..Len(rn.queries) :
       i < j => KindOf(rn.queries[i]) <= KindOf(rn.queries[j])
  /\ Generating(rn) => rn.written = 0 /\ rn.sorted = <<>> /\ rn.merged = <<>>
  /\ rn.written > 0 => rn.merged = mergeAndScoreRecommendations(rn.recommendations)
  /\ Saving(rn) =>
       /\ 1 \in Kinds(rn) <=> rn.user.country # ""
       /\ 2 \in Kinds(rn) <=> Len(rn.user.genres) > 0
       /\ 3 \in Kinds(rn) <=> Len(rn.user.languages) > 0
       /\ 4 \in Kinds(rn)
       /\ 5 \in Kinds(rn) <=> Len(rn.userMovieInteractions) > 0
  /\ rn.cleared /\ rn.written = 0 => RowsOf(rn.userId) = {}

\* C27: in a run that no other run overlaps, the clear precedes the first
\* provider query, the generators are invoked in the order country, genre,
\* language, level, collaborative, trending, no row is saved before they
\* have all returned and the merge is done, and the user has no stored row
\* between the clear and the first save.
C27_StepsInOrder ==
  \A p \in DOMAIN run : run[p].route = "" => RunOrder(run[p])

\* a run for a user who had rows, which queried for all six generators and
\* is saving
C27_Witness ==
  \E p \in DOMAIN run :
    /\ run[p].pc = "saveWrite" /\ run[p].written = 1
    /\ Kinds(run[p]) = 1..6
    /\ run[p].failedCalls > 0
    /\ run[p].rowsBefore # {}


\* C28: after any sequence of markAsWatched and unmarkAsWatched calls, also
\* unmarking a movie that is not marked and marking one twice, the user's
\* watchedCount is the number of the user's watched-movie rows and is never
\* negative.
C28_WatchedCountIsRowCount ==
  \A u \in DOMAIN users :
    /\ users[u].watchedCount = Len(watchedMovies[u])
    /\ users[u].watchedCount >= 0

\* the stored level is the one the stored experience points select
LevelOfRange(xp) ==
  CASE xp \in 0..50 -> "Beginner"
    [] xp \in 51..150 -> "Explorer"
    [] xp \in 151..300 -> "Cinephile"
    [] OTHER -> "Connoisseur"

LevelMatchesXp ==
  \A u \in DOMAIN users :
    /\ users[u].experiencePoints >= 0
    /\ users[u].level = LevelOfRange(users[u].experiencePoints)

XpNotDecreasing ==
  \A u \in DOMAIN users :
    u \in DOMAIN users' /\ users'[u].experiencePoints >= users[u].experiencePoints

\* C29: after any sequence of rateMovie, likeMovie, markAsWatched,
\* updateChallengeProgress and completeChallenge, the stored level is the one
\* the stored experience points select (Beginner 0-50, Explorer 51-150,
\* Cinephile 151-300, Connoisseur 301 or more), and experience points never
\* decrease.
C29_LevelFollowsXp == [](LevelMatchesXp) /\ [][XpNotDecreasing]_vars

\* a call has moved the user exactly onto a level boundary
C29_Witness ==
  /\ opsLeft < MaxOps
  /\ \E u \in DOMAIN users :
       /\ users[u].experiencePoints \in {ExplorerXp, CinephileXp, ConnoisseurXp}
       /\ users[u].level = LevelForXp(users[u].experiencePoints)
       /\ users[u].level # "Beginner"

RewardedOnce == \A pair \in DOMAIN rewarded : rewarded[pair] <= 1

\* a completed pair keeps its row over every step that is not a
\* completeChallenge of that pair (which alone adds a reward to a completed pair)
CompletedRowKept ==
  \A row \in userChallenges :
    (/\ row.completed
     /\ rewarded'[<<row.userId, row.challengeId>>]
          = rewarded[<<row.userId, row.challengeId>>])
    => row \in userChallenges'

\* C30: for every (user, challenge) pair the challenge's reward is added to
\* the user's experience points at most once over any sequence of
\* updateChallengeProgress and completeChallenge calls, and once the pair is
\* completed its progress and completed flag are not changed by a later
\* updateChallengeProgress.
C30_RewardAtMostOnce == [](RewardedOnce) /\ [][CompletedRowKept]_vars
====
